---- MODULE Spec2Model ----
(***************************************************************************)
(* Model of the GPU work scheduler and bind-group cache of                 *)
(* grinstead/webgpu: class GPUWorkQueue (reserveSlot, makeBinding,         *)
(* _markWork, forEachBindGroup, runQueued).                                *)
(*                                                                         *)
(* JavaScript Maps are modelled as sequences of keys in insertion order    *)
(* (Map.set on an existing key keeps its position, Map.delete removes it), *)
(* so that iteration order is what the code sees.  runQueued is split at   *)
(* the points where it calls a recorder: a recorder is caller code that    *)
(* may call back into the queue before it returns or throws.               *)
(***************************************************************************)
EXTENDS Integers, Sequences, FiniteSets, TLC

\* ---------------------------------------------------------------- bounds
MaxSlots == 2
MaxBindings == 2
MaxNotified == 2
JointSlots == 1
JointBindings == 1
MaxArgs == 2
MaxCode == 2
MaxRuns == 2
MaxLoads == 2
MaxFrags == 2
FragBindings == 3

\* ------------------------------------------------------- value universes
Funcs == {"A", "B"}
Noop == "noop"
Null == "null"

PipelineIds == {"P", "Q"}
GroupIds == {0, 1}
BindingIds == {0, 1}
Resources == {"R1", "R2"}
PipelineObjs == {"X", "Y"}

Slots == 1..MaxSlots
GroupKeys == PipelineIds \X GroupIds
Devices == {"D1", "D2"}
Formats == {"bgra8unorm", "rgba8unorm"}
Frags == 1..MaxFrags

\* the GPULoadErrorCode values
E_GPU_NOSUPPORT == 422
E_GPU_NOHARDWARE == 404
E_GPU_NOWEBGPU == 423

VARIABLES
  nextWorkId,       \* GPUWorkQueue.nextWorkId
  func,             \* func[id]: the func field of the wrapper of slot id
  persistentWork,   \* keys of the persistentWork Map, insertion order
  oneTimeWork,      \* keys of the oneTimeWork Map, insertion order
  hasWork,          \* GPUWorkQueue.hasWork
  bindings,         \* every BindingData object made so far, by handle
  groupOrder,       \* groupOrder[p]: keys of pipelines.get(p).groups, in order
  groupBindings,    \* groupBindings[<<p, g>>]: handles in group.bindings, in order
  compiled,         \* compiled[<<p, g>>]: the group's compiled field
  visited,          \* the map(cached, id) calls made by the most recent
                    \* call, when that was a forEachBindGroup
  builds,           \* its device.createBindGroup calls that returned an
                    \* object (the group ids)
  derived,          \* the groups whose entries array it collected
  fresh,            \* fresh[<<p, g>>]: the pipeline objects a compiled object
                    \* was built for since the group was last registered
                    \* into or changed
  discarded,        \* the pipeline objects whose compiled object the most
                    \* recent call threw away
  pc,               \* "idle", or "recording" while runQueued is in its loop
  renders,          \* the renders array of the current/last runQueued (ids)
  ran,              \* recorder calls made by the current/last runQueued
  outcome,          \* how the last runQueued ended
  encoders,         \* device.createCommandEncoder calls of the current/last
                    \* runQueued
  captured,         \* captured[id]: the func field of slot id when the
                    \* runQueued in progress built its renders array
  submits,          \* its device.queue.submit calls: the number of command
                    \* buffers of each
  notified,         \* onHasWork calls since the last runQueued began
  status,           \* status[id]: what the most recent update call on the
                    \* handle asked for, and for a one-time recorder
                    \* whether a flush has captured it, run it, or failed
                    \* before running it since
  lastCall,         \* the most recent call into the queue
  loadId,           \* GPUContainer's loadId; 0 before the component is made
  loads,            \* loads[id]: the loadGPU call made by run id of the
                    \* createComputed: where it stands and its Result
  getResult,        \* the value of GPUContainer's result signal
  hasHandler,       \* whether props.failure is provided
  view,             \* what GPUContainer's <Show> renders
  configured,       \* the context.configure calls made so far
  frags,            \* frags[f]: a fragment made with createGPURender,
                    \* createGPUWrite or createBinding
  mounted,          \* "none" while no Canvas owns the queue, "mounted" once
                    \* a Canvas is made, "cleaned" after its onCleanup
  renderTimer,      \* Canvas's renderTimer; 0 is undefined
  pending,          \* the animation frame requests made and neither fired
                    \* nor cancelled (their ids)
  skipped,          \* whether an onHasWork call of the Canvas has found
                    \* renderTimer set
  parts,            \* the parts of the WGSLCode made by wgsl; <<>> before
  state,            \* the WGSLSerializeState of the toString call under way
  part,             \* how many parts toString's loop has been through
  tpc,              \* "none" before wgsl is called, "loop" inside
                    \* toString, "idle" otherwise
  strings           \* what the toString calls so far returned

queueVars == <<nextWorkId, func, persistentWork, oneTimeWork, hasWork>>
cacheVars == <<bindings, groupOrder, groupBindings, compiled>>
flushVars == <<pc, renders, ran, outcome, encoders, submits, captured>>
obsVars ==
  <<notified, status, lastCall, visited, builds, derived, fresh, discarded>>
loadVars == <<loadId, loads, getResult, hasHandler, view, configured>>
canvasVars == <<mounted, renderTimer, pending, skipped>>
wgslVars == <<parts, state, part, tpc, strings>>
vars ==
  <<queueVars, cacheVars, flushVars, obsVars, loadVars, frags, canvasVars,
    wgslVars>>

\* ------------------------------------------------------------- Map helpers
Range(s) == {s[i] : i \in 1..Len(s)}

\* a set that adds an entry even when the key is there already
MapSet_AlwaysAppends(m, k) == Append(m, k)

\* Map.prototype.set(k, _) on the key sequence
MapSet(m, k) == IF k \in Range(m) THEN m ELSE Append(m, k)

\* Map.prototype.delete(k) on the key sequence
MapDelete(m, k) == SelectSeq(m, LAMBDA x : x # k)

RECURSIVE Insert(_, _)
Insert(s, x) ==
  IF s = <<>> THEN <<x>>
  ELSE IF x < Head(s) THEN <<x>> \o s
  ELSE <<Head(s)>> \o Insert(Tail(s), x)

\* the work list left in Map order (the sort forgotten)
SortById_Unsorted(s) == s

RECURSIVE SortById(_)
\* renders.sort((a, b) => a.id - b.id)
SortById(s) == IF s = <<>> THEN <<>> ELSE Insert(SortById(Tail(s)), Head(s))

Call(op, i, j, x, y) == [op |-> op, i |-> i, j |-> j, x |-> x, y |-> y]

Sat(n, max) == IF n < max THEN n + 1 ELSE max

\* A call from outside runQueued, or from inside the recorder that is
\* currently running (single-threaded: nothing else can interleave).
CanCall == pc = "idle" \/ Len(ran) >= 1

\* _markWork without the hasWork test: it notifies on every call
MarkWork_Always ==
  /\ hasWork' = TRUE
  /\ notified' = Sat(notified, MaxNotified)

\* this._markWork()
MarkWork ==
  /\ hasWork' = TRUE
  /\ notified' = IF ~hasWork THEN Sat(notified, MaxNotified) ELSE notified

\* requestAnimationFrame returns an id that no outstanding request has
FrameId == CHOOSE n \in 1..(Cardinality(pending) + 1) : n \notin pending

\* Canvas's onHasWork with `=` in place of `??=`
OnHasWork_AlwaysRequests ==
  /\ renderTimer' = FrameId
  /\ pending' = pending \cup {FrameId}
  /\ skipped' = (skipped \/ renderTimer # 0)

\* Canvas's onHasWork: renderTimer ??= requestAnimationFrame(render)
OnHasWork ==
  IF renderTimer = 0
    THEN /\ renderTimer' = FrameId
         /\ pending' = pending \cup {FrameId}
         /\ UNCHANGED skipped
    ELSE /\ UNCHANGED <<renderTimer, pending>>
         /\ skipped' = TRUE

\* this.onHasWork?.() in _markWork, which runs when the call has turned
\* hasWork from false to true: a queue made by a Canvas has the Canvas's
\* onHasWork, also after the Canvas is cleaned up
Notify ==
  /\ UNCHANGED mounted
  /\ IF mounted # "none" /\ ~hasWork /\ hasWork'
       THEN OnHasWork
       ELSE UNCHANGED <<renderTimer, pending, skipped>>

\* the three shapes of BindGroupData.compiled: undefined, null, a WeakMap.
\* The WeakMap is the set of its compiled objects, each keyed by the
\* pipeline object it was built for.
Undefined == [state |-> "undefined", objs |-> {}]
Empty == [state |-> "null", objs |-> {}]
Cached(objs) == [state |-> "map", objs |-> objs]

\* compiled?.get(pipeline): the objects found (none or one)
Lookup(c, pipeline) == {o \in c.objs : o.pipeline = pipeline}

\* the Result values: the signal's undefined (also a loadGPU promise not
\* yet settled), failure(code) and success({context, device, canvas,
\* format}); code is 0 where the Result has no failure
NoResult == [kind |-> "undefined", code |-> 0, device |-> "", format |-> ""]
failure(code) ==
  [kind |-> "failure", code |-> code, device |-> "", format |-> ""]
success(device, format) ==
  [kind |-> "success", code |-> 0, device |-> device, format |-> format]

\* what the <Show> renders: props.fallback, the handler's element for a
\* code, a thrown GPULoadError with a code, or the children inside the
\* provider of a value
View(kind, r) ==
  [kind |-> kind, code |-> r.code, device |-> r.device, format |-> r.format]

\* a fragment that has not been made
NoFrag == [kind |-> "none", state |-> "none", slot |-> 0, handle |-> 0]

\* toString's `{ nextGroup: 0, nextBinding: 0, code: [] }`
FreshState == [nextGroup |-> 0, nextBinding |-> 0, code |-> <<>>]

Init ==
  /\ nextWorkId = 1
  /\ func = [s \in Slots |-> Noop]
  /\ persistentWork = <<>>
  /\ oneTimeWork = <<>>
  /\ hasWork = FALSE
  /\ pc = "idle"
  /\ renders = <<>>
  /\ ran = <<>>
  /\ outcome = "none"
  /\ encoders = 0
  /\ submits = <<>>
  /\ captured = [s \in Slots |-> Noop]
  /\ notified = 0
  /\ status = [s \in Slots |-> "none"]
  /\ lastCall = Call("new", 0, 0, "", "")
  /\ bindings = <<>>
  /\ groupOrder = [p \in PipelineIds |-> <<>>]
  /\ groupBindings = [k \in GroupKeys |-> <<>>]
  /\ compiled = [k \in GroupKeys |-> Undefined]
  /\ visited = <<>>
  /\ builds = <<>>
  /\ derived = <<>>
  /\ fresh = [k \in GroupKeys |-> {}]
  /\ discarded = {}
  /\ loadId = 0
  /\ loads = <<>>
  /\ getResult = NoResult
  /\ hasHandler = FALSE
  /\ view = View("unmounted", NoResult)
  /\ configured = <<>>
  /\ frags = [f \in Frags |-> NoFrag]
  /\ mounted = "none"
  /\ renderTimer = 0
  /\ pending = {}
  /\ skipped = FALSE
  /\ parts = <<>>
  /\ state = FreshState
  /\ part = 0
  /\ tpc = "none"
  /\ strings = <<>>

\* reserveSlot() with `this.nextWorkId` in place of `this.nextWorkId++`
ReserveSlot_NoIncrement(max) ==
  /\ CanCall
  /\ nextWorkId <= max
  /\ nextWorkId' = nextWorkId
  /\ lastCall' = Call("reserveSlot", nextWorkId, 0, "", "")
  /\ UNCHANGED <<loadVars, frags, wgslVars>>
  /\ UNCHANGED <<func, persistentWork, oneTimeWork, hasWork>>
  /\ UNCHANGED <<cacheVars, flushVars>>
  /\ visited' = <<>> /\ builds' = <<>> /\ derived' = <<>>
  /\ discarded' = {}
  /\ UNCHANGED <<notified, status, fresh>>
  /\ Notify

\* reserveSlot(): const id = this.nextWorkId++
ReserveSlot(max) ==
  /\ CanCall
  /\ nextWorkId <= max
  /\ nextWorkId' = nextWorkId + 1
  /\ lastCall' = Call("reserveSlot", nextWorkId, 0, "", "")
  /\ UNCHANGED <<loadVars, frags, wgslVars>>
  /\ UNCHANGED <<func, persistentWork, oneTimeWork, hasWork>>
  /\ UNCHANGED <<cacheVars, flushVars>>
  /\ visited' = <<>> /\ builds' = <<>> /\ derived' = <<>>
  /\ discarded' = {}
  /\ UNCHANGED <<notified, status, fresh>>
  /\ Notify

\* 1 when update(update, everyFrame) finds the slot in the Map of the
\* other kind, so that the call switches the kind of a queued slot; else 0
Switches(id, update, everyFrame) ==
  IF update = Null THEN 0
  ELSE IF everyFrame /\ id \in Range(oneTimeWork) THEN 1
  ELSE IF ~everyFrame /\ id \in Range(persistentWork) THEN 1
  ELSE 0

\* the if-branch without the delete from the other Map
UpdateInstall_NoDelete(id, f, everyFrame) ==
  /\ func' = [func EXCEPT ![id] = f]
  /\ persistentWork' = IF everyFrame THEN MapSet(persistentWork, id)
                                     ELSE persistentWork
  /\ oneTimeWork' = IF everyFrame THEN oneTimeWork
                                  ELSE MapSet(oneTimeWork, id)
  /\ MarkWork
  /\ status' = [status EXCEPT
                  ![id] = IF everyFrame THEN "persistent" ELSE "onetime"]

\* the if-branch without its call of _markWork
UpdateInstall_NoMark(id, f, everyFrame) ==
  /\ func' = [func EXCEPT ![id] = f]
  /\ persistentWork' = IF everyFrame THEN MapSet(persistentWork, id)
                                     ELSE MapDelete(persistentWork, id)
  /\ oneTimeWork' = IF everyFrame THEN MapDelete(oneTimeWork, id)
                                  ELSE MapSet(oneTimeWork, id)
  /\ UNCHANGED <<hasWork, notified>>
  /\ status' = [status EXCEPT
                  ![id] = IF everyFrame THEN "persistent" ELSE "onetime"]

\* update(f, everyFrame) with a recorder f: the if-branch of the closure
UpdateInstall(id, f, everyFrame) ==
  /\ func' = [func EXCEPT ![id] = f]
  /\ persistentWork' = IF everyFrame THEN MapSet(persistentWork, id)
                                     ELSE MapDelete(persistentWork, id)
  /\ oneTimeWork' = IF everyFrame THEN MapDelete(oneTimeWork, id)
                                  ELSE MapSet(oneTimeWork, id)
  /\ MarkWork
  /\ status' = [status EXCEPT
                  ![id] = IF everyFrame THEN "persistent" ELSE "onetime"]

\* the else-branch marking work like the if-branch does
UpdateRemove_Marks(id) ==
  /\ oneTimeWork' = MapDelete(oneTimeWork, id)
  /\ persistentWork' = MapDelete(persistentWork, id)
  /\ status' = [status EXCEPT ![id] = "retired"]
  /\ MarkWork
  /\ UNCHANGED func

\* update(null): the else-branch of the closure
UpdateRemove(id) ==
  /\ oneTimeWork' = MapDelete(oneTimeWork, id)
  /\ persistentWork' = MapDelete(persistentWork, id)
  /\ status' = [status EXCEPT ![id] = "retired"]
  /\ UNCHANGED <<func, hasWork, notified>>

\* the closure with an update(null) that also takes the slot out of the
\* renders array of a flush in progress
Update_RetireCancels(id, update, everyFrame) ==
  /\ CanCall
  /\ id < nextWorkId
  /\ IF update # Null
       THEN UpdateInstall(id, update, everyFrame) /\ UNCHANGED renders
       ELSE /\ UpdateRemove(id)
            /\ renders' = SubSeq(renders, 1, Len(ran)) \o
                 SelectSeq(SubSeq(renders, Len(ran) + 1, Len(renders)),
                           LAMBDA x : x # id)
  /\ lastCall' = Call("update", id, 0, update,
                   IF everyFrame THEN "true" ELSE "false")
  /\ UNCHANGED <<loadVars, frags, wgslVars>>
  /\ UNCHANGED nextWorkId
  /\ UNCHANGED <<cacheVars, pc, ran, outcome, encoders, submits, captured>>
  /\ visited' = <<>> /\ builds' = <<>> /\ derived' = <<>>
  /\ discarded' = {}
  /\ UNCHANGED fresh
  /\ Notify

\* the closure returned by reserveSlot, for the slot with this id
Update(id, update, everyFrame) ==
  /\ CanCall
  /\ id < nextWorkId
  /\ IF update # Null
       THEN UpdateInstall(id, update, everyFrame)
       ELSE UpdateRemove(id)
  /\ lastCall' = Call("update", id, 0, update,
                   IF everyFrame THEN "true" ELSE "false")
  /\ UNCHANGED <<loadVars, frags, wgslVars>>
  /\ UNCHANGED nextWorkId
  /\ UNCHANGED <<cacheVars, flushVars>>
  /\ visited' = <<>> /\ builds' = <<>> /\ derived' = <<>>
  /\ discarded' = {}
  /\ UNCHANGED fresh
  /\ Notify

\* the same closure, the call recording whether it switched the kind of a
\* queued slot
UpdateLogged(id, update, everyFrame) ==
  /\ CanCall
  /\ id < nextWorkId
  /\ IF update # Null
       THEN UpdateInstall(id, update, everyFrame)
       ELSE UpdateRemove(id)
  /\ lastCall' = Call("update", id, Switches(id, update, everyFrame),
                   update,
                   IF everyFrame THEN "true" ELSE "false")
  /\ UNCHANGED <<loadVars, frags, wgslVars>>
  /\ UNCHANGED nextWorkId
  /\ UNCHANGED <<cacheVars, flushVars>>
  /\ visited' = <<>> /\ builds' = <<>> /\ derived' = <<>>
  /\ discarded' = {}
  /\ UNCHANGED fresh
  /\ Notify

\* ---------------------------------------------------------- bind groups
GroupOf(h) == <<bindings[h].pipeline, bindings[h].group>>

\* group.bindings.get(id): the handle stored under id, or 0
BindingAt(k, id) ==
  LET hs == {h \in Range(groupBindings[k]) : bindings[h].id = id}
  IN IF hs = {} THEN 0 ELSE CHOOSE h \in hs : TRUE

\* group.bindings.set(id, binding): a new key goes last, a key that is
\* already there keeps its place and gets the new value
BindingsSet(hs, id, h) ==
  IF \E i \in 1..Len(hs) : bindings[hs[i]].id = id
    THEN [i \in 1..Len(hs) |-> IF bindings[hs[i]].id = id THEN h ELSE hs[i]]
    ELSE Append(hs, h)

\* makeBinding dropping the compiled caches of every group of the pipeline
MakeBinding_ClearsPipeline(max, p, g, id) ==
  LET k == <<p, g>>
      exists == g \in Range(groupOrder[p])
      prev == BindingAt(k, id)
      h == Len(bindings) + 1
      binding == [pipeline |-> p, group |-> g, id |-> id,
                  dropped |-> FALSE, resource |-> Null]
  IN
  /\ CanCall
  /\ Len(bindings) < max
  /\ groupOrder' = [groupOrder EXCEPT ![p] = MapSet(@, g)]
  /\ compiled' = [j \in GroupKeys |->
                    IF j[1] = p THEN Undefined ELSE compiled[j]]
  /\ bindings' = Append(
        [i \in 1..Len(bindings) |->
           IF exists /\ i = prev THEN [bindings[i] EXCEPT !.dropped = TRUE]
                                 ELSE bindings[i]],
        binding)
  /\ groupBindings' = [groupBindings EXCEPT ![k] = BindingsSet(@, id, h)]
  /\ fresh' = [fresh EXCEPT ![k] = {}]
  /\ discarded' = fresh[k]
  /\ lastCall' = Call("makeBinding", g, id, p, "")
  /\ UNCHANGED <<loadVars, frags, wgslVars>>
  /\ visited' = <<>> /\ builds' = <<>> /\ derived' = <<>>
  /\ UNCHANGED <<queueVars, flushVars>>
  /\ UNCHANGED <<notified, status>>
  /\ Notify

\* makeBinding without `if (prev) prev.dropped = true`
MakeBinding_KeepsPrev(max, p, g, id) ==
  LET k == <<p, g>>
      h == Len(bindings) + 1
      binding == [pipeline |-> p, group |-> g, id |-> id,
                  dropped |-> FALSE, resource |-> Null]
  IN
  /\ CanCall
  /\ Len(bindings) < max
  /\ groupOrder' = [groupOrder EXCEPT ![p] = MapSet(@, g)]
  /\ compiled' = [compiled EXCEPT ![k] = Undefined]
  /\ bindings' = Append(bindings, binding)
  /\ groupBindings' = [groupBindings EXCEPT ![k] = BindingsSet(@, id, h)]
  /\ fresh' = [fresh EXCEPT ![k] = {}]
  /\ discarded' = fresh[k]
  /\ lastCall' = Call("makeBinding", g, id, p, "")
  /\ UNCHANGED <<loadVars, frags, wgslVars>>
  /\ visited' = <<>> /\ builds' = <<>> /\ derived' = <<>>
  /\ UNCHANGED <<queueVars, flushVars>>
  /\ UNCHANGED <<notified, status>>
  /\ Notify

\* what makeBinding(pipelineId, groupId, id) does to the pipelines Map:
\* the group is found or made, its compiled field and the binding stored
\* under id are dropped, and a new BindingData is stored under id
Register(p, g, id) ==
  LET k == <<p, g>>
      exists == g \in Range(groupOrder[p])
      prev == BindingAt(k, id)
      h == Len(bindings) + 1
      binding == [pipeline |-> p, group |-> g, id |-> id,
                  dropped |-> FALSE, resource |-> Null]
  IN
  /\ groupOrder' = [groupOrder EXCEPT ![p] = MapSet(@, g)]
  /\ compiled' = [compiled EXCEPT ![k] = Undefined]
  /\ bindings' = Append(
        [i \in 1..Len(bindings) |->
           IF exists /\ i = prev THEN [bindings[i] EXCEPT !.dropped = TRUE]
                                 ELSE bindings[i]],
        binding)
  /\ groupBindings' = [groupBindings EXCEPT ![k] = BindingsSet(@, id, h)]
  /\ fresh' = [fresh EXCEPT ![k] = {}]
  /\ discarded' = fresh[k]

\* makeBinding(pipelineId, groupId, id), called by anyone
MakeBinding(max, p, g, id) ==
  /\ CanCall
  /\ Len(bindings) < max
  /\ Register(p, g, id)
  /\ lastCall' = Call("makeBinding", g, id, p, "")
  /\ UNCHANGED <<loadVars, frags, wgslVars>>
  /\ visited' = <<>> /\ builds' = <<>> /\ derived' = <<>>
  /\ UNCHANGED <<queueVars, flushVars>>
  /\ UNCHANGED <<notified, status>>
  /\ Notify

\* the setter without the `resource === binding.resource` test
SetResource_NoEqualityTest(h, resource) ==
  /\ CanCall
  /\ h \in 1..Len(bindings)
  /\ IF bindings[h].dropped
       THEN /\ UNCHANGED <<bindings, compiled, hasWork, notified, fresh>>
            /\ discarded' = {}
       ELSE /\ bindings' = [bindings EXCEPT ![h].resource = resource]
            /\ compiled' = [compiled EXCEPT ![GroupOf(h)] = Undefined]
            /\ MarkWork
            /\ fresh' = [fresh EXCEPT ![GroupOf(h)] = {}]
            /\ discarded' = fresh[GroupOf(h)]
  /\ lastCall' = Call("setResource", h, 0, resource, "")
  /\ UNCHANGED <<loadVars, frags, wgslVars>>
  /\ visited' = <<>> /\ builds' = <<>> /\ derived' = <<>>
  /\ UNCHANGED <<nextWorkId, func, persistentWork, oneTimeWork>>
  /\ UNCHANGED <<groupOrder, groupBindings>>
  /\ UNCHANGED <<flushVars, status>>
  /\ Notify

\* the setter without `group.compiled = undefined`
SetResource_KeepsCompiled(h, resource) ==
  /\ CanCall
  /\ h \in 1..Len(bindings)
  /\ IF bindings[h].dropped \/ resource = bindings[h].resource
       THEN /\ UNCHANGED <<bindings, hasWork, notified, fresh>>
            /\ discarded' = {}
       ELSE /\ bindings' = [bindings EXCEPT ![h].resource = resource]
            /\ MarkWork
            /\ fresh' = [fresh EXCEPT ![GroupOf(h)] = {}]
            /\ discarded' = fresh[GroupOf(h)]
  /\ lastCall' = Call("setResource", h, 0, resource, "")
  /\ UNCHANGED <<loadVars, frags, wgslVars>>
  /\ visited' = <<>> /\ builds' = <<>> /\ derived' = <<>>
  /\ UNCHANGED <<nextWorkId, func, persistentWork, oneTimeWork>>
  /\ UNCHANGED <<groupOrder, groupBindings, compiled>>
  /\ UNCHANGED <<flushVars, status>>
  /\ Notify

\* the setter without the `binding.dropped` test
SetResource_NoDroppedTest(h, resource) ==
  /\ CanCall
  /\ h \in 1..Len(bindings)
  /\ IF resource = bindings[h].resource
       THEN /\ UNCHANGED <<bindings, compiled, hasWork, notified, fresh>>
            /\ discarded' = {}
       ELSE /\ bindings' = [bindings EXCEPT ![h].resource = resource]
            /\ compiled' = [compiled EXCEPT ![GroupOf(h)] = Undefined]
            /\ MarkWork
            /\ fresh' = [fresh EXCEPT ![GroupOf(h)] = {}]
            /\ discarded' = fresh[GroupOf(h)]
  /\ lastCall' = Call("setResource", h, 0, resource, "")
  /\ UNCHANGED <<loadVars, frags, wgslVars>>
  /\ UNCHANGED <<nextWorkId, func, persistentWork, oneTimeWork>>
  /\ visited' = <<>> /\ builds' = <<>> /\ derived' = <<>>
  /\ UNCHANGED <<groupOrder, groupBindings>>
  /\ UNCHANGED <<flushVars, status>>
  /\ Notify

\* the body of the setter returned by makeBinding, for the binding with
\* handle h
Store(h, resource) ==
  IF bindings[h].dropped \/ resource = bindings[h].resource
    THEN /\ UNCHANGED <<bindings, compiled, hasWork, notified, fresh>>
         /\ discarded' = {}
    ELSE /\ bindings' = [bindings EXCEPT ![h].resource = resource]
         /\ compiled' = [compiled EXCEPT ![GroupOf(h)] = Undefined]
         /\ MarkWork
         /\ fresh' = [fresh EXCEPT ![GroupOf(h)] = {}]
         /\ discarded' = fresh[GroupOf(h)]

\* the setter of binding h called with resource, by anyone
SetResource(h, resource) ==
  /\ CanCall
  /\ h \in 1..Len(bindings)
  /\ Store(h, resource)
  /\ lastCall' = Call("setResource", h, 0, resource, "")
  /\ UNCHANGED <<loadVars, frags, wgslVars>>
  /\ UNCHANGED <<nextWorkId, func, persistentWork, oneTimeWork>>
  /\ visited' = <<>> /\ builds' = <<>> /\ derived' = <<>>
  /\ UNCHANGED <<groupOrder, groupBindings>>
  /\ UNCHANGED <<flushVars, status>>
  /\ Notify

\* the entries array without the `resource &&` test
Entries_KeepsEmpty(k) ==
  LET live == groupBindings[k]
  IN [i \in 1..Len(live) |->
        [binding |-> bindings[live[i]].id, resource |-> bindings[live[i]].resource]]

\* the entries array forEachBindGroup collects for a group
Entries(k) ==
  LET live == SelectSeq(groupBindings[k],
                        LAMBDA h : bindings[h].resource # Null)
  IN [i \in 1..Len(live) |->
        [binding |-> bindings[live[i]].id, resource |-> bindings[live[i]].resource]]

\* the body without the `compiled === null` test
VisitGroup_NoEmptySkip(p, pipeline, g, acc) ==
  LET k == <<p, g>>
      c == acc.compiled[k]
      cached == Lookup(c, pipeline)
      built == [pipeline |-> pipeline, index |-> g, entries |-> Entries(k)]
      collected == [acc EXCEPT !.derived = Append(@, g)]
  IN
  IF cached # {} THEN
    [acc EXCEPT !.visited =
       Append(@, [group |-> CHOOSE o \in cached : TRUE, id |-> g])]
  ELSE IF Entries(k) = <<>> THEN
    [collected EXCEPT !.compiled = [@ EXCEPT ![k] = Empty]]
  ELSE
    [collected EXCEPT
       !.compiled = [@ EXCEPT ![k] = Cached(c.objs \cup {built})],
       !.builds = Append(@, g),
       !.visited = Append(@, [group |-> built, id |-> g])]

\* the body with a cache that holds one compiled object per group
VisitGroup_SingleEntry(p, pipeline, g, acc) ==
  LET k == <<p, g>>
      c == acc.compiled[k]
      cached == Lookup(c, pipeline)
      built == [pipeline |-> pipeline, index |-> g, entries |-> Entries(k)]
      collected == [acc EXCEPT !.derived = Append(@, g)]
  IN
  IF c.state = "null" THEN acc
  ELSE IF cached # {} THEN
    [acc EXCEPT !.visited =
       Append(@, [group |-> CHOOSE o \in cached : TRUE, id |-> g])]
  ELSE IF Entries(k) = <<>> THEN
    [collected EXCEPT !.compiled = [@ EXCEPT ![k] = Empty]]
  ELSE
    [collected EXCEPT
       !.compiled = [@ EXCEPT ![k] = Cached({built})],
       !.builds = Append(@, g),
       !.visited = Append(@, [group |-> built, id |-> g])]

\* the body of pipelineData.groups.forEach for one group, on the
\* accumulated result acc of the groups before it
VisitGroup(p, pipeline, g, acc) ==
  LET k == <<p, g>>
      c == acc.compiled[k]
      cached == Lookup(c, pipeline)
      built == [pipeline |-> pipeline, index |-> g, entries |-> Entries(k)]
      collected == [acc EXCEPT !.derived = Append(@, g)]
  IN
  IF c.state = "null" THEN acc
  ELSE IF cached # {} THEN
    [acc EXCEPT !.visited =
       Append(@, [group |-> CHOOSE o \in cached : TRUE, id |-> g])]
  ELSE IF Entries(k) = <<>> THEN
    [collected EXCEPT !.compiled = [@ EXCEPT ![k] = Empty]]
  ELSE
    [collected EXCEPT
       !.compiled = [@ EXCEPT ![k] = Cached(c.objs \cup {built})],
       !.builds = Append(@, g),
       !.visited = Append(@, [group |-> built, id |-> g])]

RECURSIVE VisitGroups(_, _, _, _)
VisitGroups(p, pipeline, gs, acc) ==
  IF gs = <<>> THEN acc
  ELSE VisitGroups(p, pipeline, Tail(gs), VisitGroup(p, pipeline, Head(gs), acc))

\* what forEachBindGroup starts from: nothing visited, built or collected
Start == [compiled |-> compiled, builds |-> <<>>, derived |-> <<>>,
          visited |-> <<>>]

\* forEachBindGroup going over the groups of the pipeline twice
ForEachBindGroup_VisitsTwice(p, pipeline) ==
  LET res == VisitGroups(p, pipeline, groupOrder[p] \o groupOrder[p], Start)
  IN
  /\ CanCall
  /\ compiled' = res.compiled
  /\ visited' = res.visited
  /\ builds' = res.builds
  /\ derived' = res.derived
  /\ discarded' = {}
  /\ fresh' = [k \in GroupKeys |->
        IF k[1] = p /\ k[2] \in Range(res.builds)
          THEN fresh[k] \cup {pipeline} ELSE fresh[k]]
  /\ lastCall' = Call("forEachBindGroup", 0, 0, p, pipeline)
  /\ UNCHANGED <<loadVars, frags, wgslVars>>
  /\ UNCHANGED <<queueVars, flushVars>>
  /\ UNCHANGED <<bindings, groupOrder, groupBindings>>
  /\ UNCHANGED <<notified, status>>
  /\ Notify

\* forEachBindGroup(pipelineId, pipeline, map)
ForEachBindGroup(p, pipeline) ==
  LET res == VisitGroups(p, pipeline, groupOrder[p], Start)
  IN
  /\ CanCall
  /\ compiled' = res.compiled
  /\ visited' = res.visited
  /\ builds' = res.builds
  /\ derived' = res.derived
  /\ discarded' = {}
  /\ fresh' = [k \in GroupKeys |->
        IF k[1] = p /\ k[2] \in Range(res.builds)
          THEN fresh[k] \cup {pipeline} ELSE fresh[k]]
  /\ lastCall' = Call("forEachBindGroup", 0, 0, p, pipeline)
  /\ UNCHANGED <<loadVars, frags, wgslVars>>
  /\ UNCHANGED <<queueVars, flushVars>>
  /\ UNCHANGED <<bindings, groupOrder, groupBindings>>
  /\ UNCHANGED <<notified, status>>
  /\ Notify

\* the groups that groups.forEach reaches before group g
Before(gs, g) ==
  IF gs = <<>> \/ Head(gs) = g THEN <<>>
  ELSE SubSeq(gs, 1, (CHOOSE i \in 1..Len(gs) : gs[i] = g) - 1)

\* a failing build that leaves the group marked empty
CreateBindGroupThrows_MarksEmpty(p, pipeline, g) ==
  LET k == <<p, g>>
      res == VisitGroups(p, pipeline, Before(groupOrder[p], g), Start)
  IN
  /\ CanCall
  /\ g \in Range(groupOrder[p])
  /\ compiled[k].state # "null"
  /\ Lookup(compiled[k], pipeline) = {}
  /\ Entries(k) # <<>>
  /\ compiled' = [res.compiled EXCEPT ![k] = Empty]
  /\ visited' = res.visited
  /\ builds' = res.builds
  /\ derived' = Append(res.derived, g)
  /\ discarded' = {}
  /\ fresh' = [j \in GroupKeys |->
        IF j[1] = p /\ j[2] \in Range(res.builds)
          THEN fresh[j] \cup {pipeline} ELSE fresh[j]]
  /\ lastCall' = Call("createBindGroupThrows", g, 0, p, pipeline)
  /\ UNCHANGED <<loadVars, frags, wgslVars>>
  /\ UNCHANGED <<queueVars, flushVars>>
  /\ UNCHANGED <<bindings, groupOrder, groupBindings>>
  /\ UNCHANGED <<notified, status>>
  /\ Notify

\* forEachBindGroup(pipelineId, pipeline, map) in which the device throws
\* from createBindGroup (or getBindGroupLayout) for group g: the groups
\* before g are done, the exception leaves forEach at g
CreateBindGroupThrows(p, pipeline, g) ==
  LET k == <<p, g>>
      res == VisitGroups(p, pipeline, Before(groupOrder[p], g), Start)
  IN
  /\ CanCall
  /\ g \in Range(groupOrder[p])
  /\ compiled[k].state # "null"
  /\ Lookup(compiled[k], pipeline) = {}
  /\ Entries(k) # <<>>
  /\ compiled' = res.compiled
  /\ visited' = res.visited
  /\ builds' = res.builds
  /\ derived' = Append(res.derived, g)
  /\ discarded' = {}
  /\ fresh' = [j \in GroupKeys |->
        IF j[1] = p /\ j[2] \in Range(res.builds)
          THEN fresh[j] \cup {pipeline} ELSE fresh[j]]
  /\ lastCall' = Call("createBindGroupThrows", g, 0, p, pipeline)
  /\ UNCHANGED <<loadVars, frags, wgslVars>>
  /\ UNCHANGED <<queueVars, flushVars>>
  /\ UNCHANGED <<bindings, groupOrder, groupBindings>>
  /\ UNCHANGED <<notified, status>>
  /\ Notify

\* ------------------------------------------------------------------ flush
\* a work list of the one-time work only
WorkList_OneTimeOnly == SortById(oneTimeWork)

\* a work list of the persistent work only
WorkList_PersistentOnly == SortById(persistentWork)

\* the work list runQueued builds: [...persistent, ...oneTime], then sorted
WorkList == SortById(persistentWork \o oneTimeWork)

\* runQueued() without the `if (!renders.length) return`
RunQueued_NoEmptyTest ==
  /\ pc = "idle"
  /\ hasWork' = FALSE
  /\ renders' = WorkList
  /\ oneTimeWork' = <<>>
  /\ ran' = <<>>
  /\ pc' = "recording" /\ outcome' = "none"
  /\ encoders' = 1
  /\ captured' = func
  /\ submits' = <<>>
  /\ notified' = 0
  /\ lastCall' = Call("runQueued", 0, 0, IF hasWork THEN "true" ELSE "false", "")
  /\ UNCHANGED <<loadVars, frags, wgslVars>>
  /\ UNCHANGED <<nextWorkId, func, persistentWork>>
  /\ visited' = <<>> /\ builds' = <<>> /\ derived' = <<>>
  /\ discarded' = {}
  /\ UNCHANGED <<cacheVars, fresh>>
  /\ status' = [s \in Slots |->
        IF s \in Range(oneTimeWork) /\ status[s] = "onetime"
          THEN "drained" ELSE status[s]]
  /\ Notify

\* runQueued() without `this.hasWork = false`
RunQueued_KeepsHasWork ==
  /\ pc = "idle"
  /\ hasWork' = hasWork
  /\ renders' = WorkList
  /\ oneTimeWork' = <<>>
  /\ ran' = <<>>
  /\ IF WorkList = <<>>
       THEN /\ pc' = "idle" /\ outcome' = "empty" /\ encoders' = 0
            /\ UNCHANGED captured
       ELSE /\ pc' = "recording" /\ outcome' = "none" /\ encoders' = 1
            /\ captured' = func
  /\ submits' = <<>>
  /\ notified' = 0
  /\ lastCall' = Call("runQueued", 0, 0, IF hasWork THEN "true" ELSE "false", "")
  /\ UNCHANGED <<loadVars, frags, wgslVars>>
  /\ UNCHANGED <<nextWorkId, func, persistentWork>>
  /\ visited' = <<>> /\ builds' = <<>> /\ derived' = <<>>
  /\ discarded' = {}
  /\ UNCHANGED <<cacheVars, fresh>>
  /\ status' = [s \in Slots |->
        IF s \in Range(oneTimeWork) /\ status[s] = "onetime"
          THEN "drained" ELSE status[s]]
  /\ Notify

\* runQueued() up to and including the creation of the command encoder;
\* the call records whether hasWork was set when it began
RunQueuedBody ==
  /\ pc = "idle"
  /\ hasWork' = FALSE
  /\ renders' = WorkList
  /\ oneTimeWork' = <<>>
  /\ ran' = <<>>
  /\ IF WorkList = <<>>
       THEN /\ pc' = "idle" /\ outcome' = "empty" /\ encoders' = 0
            /\ UNCHANGED captured
       ELSE /\ pc' = "recording" /\ outcome' = "none" /\ encoders' = 1
            /\ captured' = func
  /\ submits' = <<>>
  /\ notified' = 0
  /\ lastCall' = Call("runQueued", 0, 0, IF hasWork THEN "true" ELSE "false", "")
  /\ UNCHANGED <<loadVars, frags, wgslVars>>
  /\ UNCHANGED <<nextWorkId, func, persistentWork>>
  /\ visited' = <<>> /\ builds' = <<>> /\ derived' = <<>>
  /\ discarded' = {}
  /\ UNCHANGED <<cacheVars, fresh>>
  /\ status' = [s \in Slots |->
        IF s \in Range(oneTimeWork) /\ status[s] = "onetime"
          THEN "drained" ELSE status[s]]

\* runQueued() called by anyone
RunQueued ==
  /\ RunQueuedBody
  /\ Notify

\* one iteration of `for (const { func } of renders) func(encoder)`:
\* the previous recorder has returned and the next one is called
RunRecorder ==
  /\ pc = "recording"
  /\ Len(ran) < Len(renders)
  /\ LET id == renders[Len(ran) + 1] IN
       /\ ran' = Append(ran, [id |-> id, func |-> func[id]])
       /\ status' = [status EXCEPT
             ![id] = IF @ \in {"onetime", "drained"} THEN "spent" ELSE @]
       /\ lastCall' = Call("recorder", id, 0, func[id], "")
       /\ UNCHANGED <<loadVars, frags, wgslVars>>
  /\ UNCHANGED <<queueVars, cacheVars>>
  /\ UNCHANGED <<pc, renders, outcome, encoders, submits, captured>>
  /\ visited' = <<>> /\ builds' = <<>> /\ derived' = <<>>
  /\ discarded' = {}
  /\ UNCHANGED <<notified, fresh>>
  /\ Notify

\* the captured one-time slots that the current flush has not called and
\* that no update has touched since the capture
Undone == {s \in Slots : status[s] = "drained"}

\* an exception that the loop catches and goes on from
RecorderThrows_Swallowed ==
  /\ pc = "recording"
  /\ Len(ran) >= 1
  /\ pc' = "recording"
  /\ outcome' = "failed"
  /\ UNCHANGED captured
  /\ lastCall' = Call("throw", ran[Len(ran)].id, 0, "", "")
  /\ UNCHANGED <<loadVars, frags, wgslVars>>
  /\ UNCHANGED <<queueVars, cacheVars>>
  /\ UNCHANGED <<renders, ran, encoders, submits>>
  /\ visited' = <<>> /\ builds' = <<>> /\ derived' = <<>>
  /\ discarded' = {}
  /\ status' = status
  /\ UNCHANGED <<notified, fresh>>
  /\ Notify

\* an exception after which the one-time slots not yet called are put
\* back into the one-time Map
RecorderThrows_Requeues ==
  /\ pc = "recording"
  /\ Len(ran) >= 1
  /\ pc' = "idle"
  /\ outcome' = "failed"
  /\ captured' = [s \in Slots |-> Noop]
  /\ lastCall' = Call("throw", ran[Len(ran)].id, 0, "", "")
  /\ UNCHANGED <<loadVars, frags, wgslVars>>
  /\ oneTimeWork' = oneTimeWork \o SelectSeq(renders, LAMBDA s : s \in Undone)
  /\ UNCHANGED <<nextWorkId, func, persistentWork, hasWork>>
  /\ UNCHANGED cacheVars
  /\ UNCHANGED <<renders, ran, encoders, submits>>
  /\ visited' = <<>> /\ builds' = <<>> /\ derived' = <<>>
  /\ discarded' = {}
  /\ status' = [s \in Slots |-> IF s \in Undone THEN "lost" ELSE status[s]]
  /\ UNCHANGED <<notified, fresh>>
  /\ Notify

\* the recorder that is running throws: runQueued is left by the
\* exception, which reaches the caller of runQueued (there is no try in
\* it); the captured one-time slots not yet called are lost
RecorderThrows ==
  /\ pc = "recording"
  /\ Len(ran) >= 1
  /\ pc' = "idle"
  /\ outcome' = "failed"
  /\ captured' = [s \in Slots |-> Noop]
  /\ lastCall' = Call("throw", ran[Len(ran)].id, 0, "", "")
  /\ UNCHANGED <<loadVars, frags, wgslVars>>
  /\ UNCHANGED <<queueVars, cacheVars>>
  /\ UNCHANGED <<renders, ran, encoders, submits>>
  /\ visited' = <<>> /\ builds' = <<>> /\ derived' = <<>>
  /\ discarded' = {}
  /\ status' = [s \in Slots |-> IF s \in Undone THEN "lost" ELSE status[s]]
  /\ UNCHANGED <<notified, fresh>>
  /\ Notify

\* a submission that does not wait for the end of the loop
Submit_Early ==
  /\ pc = "recording"
  /\ Len(ran) >= 1
  /\ pc' = "idle"
  /\ outcome' = "submitted"
  /\ captured' = [s \in Slots |-> Noop]
  /\ submits' = Append(submits, 1)
  /\ lastCall' = Call("submit", 0, 0, "", "")
  /\ UNCHANGED <<loadVars, frags, wgslVars>>
  /\ UNCHANGED <<queueVars, cacheVars>>
  /\ UNCHANGED <<renders, ran, encoders>>
  /\ visited' = <<>> /\ builds' = <<>> /\ derived' = <<>>
  /\ discarded' = {}
  /\ UNCHANGED <<notified, status, fresh>>
  /\ Notify

\* a submission that waits for the every-frame recorders only
Submit_AfterRenders ==
  /\ pc = "recording"
  /\ \A i \in 1..Len(renders) :
        renders[i] \in Range(persistentWork) => i <= Len(ran)
  /\ pc' = "idle"
  /\ outcome' = "submitted"
  /\ captured' = [s \in Slots |-> Noop]
  /\ submits' = Append(submits, 1)
  /\ lastCall' = Call("submit", 0, 0, "", "")
  /\ UNCHANGED <<loadVars, frags, wgslVars>>
  /\ UNCHANGED <<queueVars, cacheVars>>
  /\ UNCHANGED <<renders, ran, encoders>>
  /\ visited' = <<>> /\ builds' = <<>> /\ derived' = <<>>
  /\ discarded' = {}
  /\ UNCHANGED <<notified, status, fresh>>
  /\ Notify

\* device.queue.submit([encoder.finish()]) after the last recorder returned
Submit ==
  /\ pc = "recording"
  /\ Len(ran) = Len(renders)
  /\ pc' = "idle"
  /\ outcome' = "submitted"
  /\ captured' = [s \in Slots |-> Noop]
  /\ submits' = Append(submits, 1)
  /\ lastCall' = Call("submit", 0, 0, "", "")
  /\ UNCHANGED <<loadVars, frags, wgslVars>>
  /\ UNCHANGED <<queueVars, cacheVars>>
  /\ UNCHANGED <<renders, ran, encoders>>
  /\ visited' = <<>> /\ builds' = <<>> /\ derived' = <<>>
  /\ discarded' = {}
  /\ UNCHANGED <<notified, status, fresh>>
  /\ Notify

UpdateLoggedAny ==
  \E id \in Slots, u \in Funcs \cup {Null}, e \in BOOLEAN :
     UpdateLogged(id, u, e)

UpdateAny ==
  \E id \in Slots, u \in Funcs \cup {Null}, e \in BOOLEAN : Update(id, u, e)

MakeBindingAny(max) ==
  \E p \in PipelineIds, g \in GroupIds, id \in BindingIds :
     MakeBinding(max, p, g, id)

SetResourceAny ==
  \E h \in 1..Len(bindings), r \in Resources \cup {Null} : SetResource(h, r)

ForEachBindGroupAny ==
  \E p \in PipelineIds, o \in PipelineObjs : ForEachBindGroup(p, o)

CreateBindGroupThrowsAny ==
  \E p \in PipelineIds, o \in PipelineObjs, g \in GroupIds :
     CreateBindGroupThrows(p, o, g)

\* the work scheduler alone
NextQueue ==
  \/ ReserveSlot(MaxSlots)
  \/ UpdateAny
  \/ RunQueued
  \/ RunRecorder
  \/ RecorderThrows
  \/ Submit

SpecQueue == Init /\ [][NextQueue]_vars

\* the work scheduler with the kind switches of its updates on record
NextSwitch ==
  \/ ReserveSlot(MaxSlots)
  \/ UpdateLoggedAny
  \/ RunQueued
  \/ RunRecorder
  \/ RecorderThrows
  \/ Submit

SpecSwitch == Init /\ [][NextSwitch]_vars

\* the bind-group cache alone (flushes of an empty work list)
NextCache ==
  \/ MakeBindingAny(MaxBindings)
  \/ SetResourceAny
  \/ ForEachBindGroupAny
  \/ CreateBindGroupThrowsAny
  \/ RunQueued

SpecCache == Init /\ [][NextCache]_vars

\* scheduler and cache together
Next ==
  \/ ReserveSlot(JointSlots)
  \/ UpdateAny
  \/ MakeBindingAny(JointBindings)
  \/ SetResourceAny
  \/ ForEachBindGroupAny
  \/ CreateBindGroupThrowsAny
  \/ RunQueued
  \/ RunRecorder
  \/ RecorderThrows
  \/ Submit

Spec == Init /\ [][Next]_vars

\* ------------------------------------------------------------ properties
\* ------------------------------------------------------------ GPUContainer
\* no call into the queue: the queue, the cache and the fragments stay
QueueUntouched ==
  /\ UNCHANGED <<queueVars, cacheVars, flushVars>>
  /\ UNCHANGED <<notified, status, visited, builds, derived, fresh, discarded>>
  /\ UNCHANGED frags
  /\ UNCHANGED canvasVars
  /\ UNCHANGED wgslVars

\* the <Show> callback that throws whether or not props.failure is there
Render_AlwaysThrows(result, handler) ==
  IF result = NoResult THEN View("fallback", NoResult)
  ELSE IF result.kind = "failure" THEN View("thrown", result)
  ELSE View("children", result)

\* <Show when={getResult()} keyed fallback={props.fallback}> and its
\* callback
Render(result, handler) ==
  IF result = NoResult THEN View("fallback", NoResult)
  ELSE IF result.kind = "failure"
         THEN IF handler THEN View("handler", result)
                         ELSE View("thrown", result)
  ELSE View("children", result)

\* loadGPU up to its first await: without navigator.gpu it returns
\* failure(E_GPU_NOSUPPORT), else it waits for gpu.requestAdapter
LoadGPU(gpu) ==
  IF gpu THEN [pc |-> "adapter", result |-> NoResult]
         ELSE [pc |-> "settled", result |-> failure(E_GPU_NOSUPPORT)]

\* the body of the createComputed: ++loadId, setResult(undefined), loadGPU
Load(gpu, handler) ==
  /\ loadId' = loadId + 1
  /\ getResult' = NoResult
  /\ view' = Render(NoResult, handler)
  /\ loads' = Append(loads, LoadGPU(gpu))
  /\ lastCall' = Call("loadGPU", loadId + 1, IF gpu THEN 1 ELSE 0, "", "")
  /\ UNCHANGED configured

\* GPUContainer(props): the component is made and its createComputed runs
GPUContainer(handler, gpu) ==
  /\ loadId = 0
  /\ hasHandler' = handler
  /\ Load(gpu, handler)
  /\ QueueUntouched

\* the createComputed runs again: props.canvas, props.adapter or
\* props.device changed
Recompute(max, gpu) ==
  /\ loadId >= 1
  /\ loadId < max
  /\ UNCHANGED hasHandler
  /\ Load(gpu, hasHandler)
  /\ QueueUntouched

\* gpu.requestAdapter resolves, with an adapter or with null
AdapterResolves(id, adapter) ==
  /\ id \in 1..Len(loads)
  /\ loads[id].pc = "adapter"
  /\ loads' = [loads EXCEPT ![id] =
       IF adapter THEN [pc |-> "device", result |-> NoResult]
                  ELSE [pc |-> "settled",
                        result |-> failure(E_GPU_NOHARDWARE)]]
  /\ lastCall' = Call("requestAdapter", id, IF adapter THEN 1 ELSE 0, "", "")
  /\ UNCHANGED <<loadId, getResult, hasHandler, view, configured>>
  /\ QueueUntouched

\* gpu.requestAdapter or adapter.requestDevice rejects: so does loadGPU,
\* and the .then callback is never called
Rejects(id) ==
  /\ id \in 1..Len(loads)
  /\ loads[id].pc \in {"adapter", "device"}
  /\ loads' = [loads EXCEPT ![id].pc = "rejected"]
  /\ lastCall' = Call("rejects", id, 0, "", "")
  /\ UNCHANGED <<loadId, getResult, hasHandler, view, configured>>
  /\ QueueUntouched

\* the rest of loadGPU returning success without context.configure
DeviceResolves_NoConfigure(id, device, context, format) ==
  /\ id \in 1..Len(loads)
  /\ loads[id].pc = "device"
  /\ IF context
       THEN /\ UNCHANGED configured
            /\ loads' = [loads EXCEPT ![id] =
                 [pc |-> "settled", result |-> success(device, format)]]
       ELSE /\ UNCHANGED configured
            /\ loads' = [loads EXCEPT ![id] =
                 [pc |-> "settled", result |-> failure(E_GPU_NOWEBGPU)]]
  /\ lastCall' = Call("requestDevice", id, IF context THEN 1 ELSE 0,
                   device, format)
  /\ UNCHANGED <<loadId, getResult, hasHandler, view>>
  /\ QueueUntouched

\* adapter.requestDevice resolves with a device, and loadGPU runs to its
\* end: canvas.getContext("webgpu") gives a context or null, and
\* gpu.getPreferredCanvasFormat() gives format
DeviceResolves(id, device, context, format) ==
  /\ id \in 1..Len(loads)
  /\ loads[id].pc = "device"
  /\ IF context
       THEN /\ configured' = Append(configured,
                 [load |-> id, device |-> device, format |-> format])
            /\ loads' = [loads EXCEPT ![id] =
                 [pc |-> "settled", result |-> success(device, format)]]
       ELSE /\ UNCHANGED configured
            /\ loads' = [loads EXCEPT ![id] =
                 [pc |-> "settled", result |-> failure(E_GPU_NOWEBGPU)]]
  /\ lastCall' = Call("requestDevice", id, IF context THEN 1 ELSE 0,
                   device, format)
  /\ UNCHANGED <<loadId, getResult, hasHandler, view>>
  /\ QueueUntouched

\* the .then callback without the `id === loadId` test
Then_NoIdTest(id) ==
  /\ id \in 1..Len(loads)
  /\ loads[id].pc = "settled"
  /\ loads' = [loads EXCEPT ![id].pc = "delivered"]
  /\ getResult' = loads[id].result
  /\ view' = Render(loads[id].result, hasHandler)
  /\ lastCall' = Call("then", id, 0, "", "")
  /\ UNCHANGED <<loadId, hasHandler, configured>>
  /\ QueueUntouched

\* the .then callback of run id of the createComputed
Then(id) ==
  /\ id \in 1..Len(loads)
  /\ loads[id].pc = "settled"
  /\ loads' = [loads EXCEPT ![id].pc = "delivered"]
  /\ IF id = loadId
       THEN /\ getResult' = loads[id].result
            /\ view' = Render(loads[id].result, hasHandler)
       ELSE UNCHANGED <<getResult, view>>
  /\ lastCall' = Call("then", id, 0, "", "")
  /\ UNCHANGED <<loadId, hasHandler, configured>>
  /\ QueueUntouched

GPUContainerAny == \E handler, gpu \in BOOLEAN : GPUContainer(handler, gpu)

RecomputeAny(max) == \E gpu \in BOOLEAN : Recompute(max, gpu)

AdapterResolvesAny ==
  \E id \in 1..MaxLoads, adapter \in BOOLEAN : AdapterResolves(id, adapter)

RejectsAny == \E id \in 1..MaxLoads : Rejects(id)

DeviceResolvesAny ==
  \E id \in 1..MaxLoads, device \in Devices, context \in BOOLEAN,
     format \in Formats : DeviceResolves(id, device, context, format)

ThenAny == \E id \in 1..MaxLoads : Then(id)

NextLoad ==
  \/ GPUContainerAny
  \/ RecomputeAny(MaxLoads)
  \/ AdapterResolvesAny
  \/ RejectsAny
  \/ DeviceResolvesAny
  \/ ThenAny

\* GPUContainer and its loads
SpecLoad == Init /\ [][NextLoad]_vars

\* --------------------------------------------------------------- fragments
\* a createBinding memo is between its prev(null) and its makeBinding
Busy == \E f \in Frags : frags[f].state = "rerun"

\* createGPURender / createGPUWrite: reserveSlot(), then the first run of
\* the render effect calls update(code(), everyFrame)
CreateWork(max, f, kind, code, everyFrame) ==
  /\ pc = "idle" /\ ~Busy
  /\ frags[f].kind = "none"
  /\ nextWorkId <= max
  /\ nextWorkId' = nextWorkId + 1
  /\ UpdateInstall(nextWorkId, code, everyFrame)
  /\ frags' = [frags EXCEPT ![f] =
       [kind |-> kind, state |-> "live", slot |-> nextWorkId, handle |-> 0]]
  /\ lastCall' = Call("update", nextWorkId, 0, code,
                   IF everyFrame THEN "true" ELSE "false")
  /\ UNCHANGED <<cacheVars, flushVars, fresh>>
  /\ UNCHANGED <<loadVars, wgslVars>>
  /\ visited' = <<>> /\ builds' = <<>> /\ derived' = <<>>
  /\ discarded' = {}
  /\ Notify

\* createGPURender(code)
CreateGPURender(max, f, code) == CreateWork(max, f, "render", code, TRUE)

\* createGPUWrite(code)
CreateGPUWrite(max, f, code) == CreateWork(max, f, "write", code, FALSE)

\* code() changed: the render effect of a live fragment runs again
EffectRuns(f, code) ==
  /\ pc = "idle" /\ ~Busy
  /\ frags[f].state = "live"
  /\ frags[f].kind \in {"render", "write"}
  /\ UpdateInstall(frags[f].slot, code, frags[f].kind = "render")
  /\ lastCall' = Call("update", frags[f].slot, 0, code,
                   IF frags[f].kind = "render" THEN "true" ELSE "false")
  /\ UNCHANGED <<nextWorkId, frags>>
  /\ UNCHANGED <<cacheVars, flushVars, fresh>>
  /\ UNCHANGED <<loadVars, wgslVars>>
  /\ visited' = <<>> /\ builds' = <<>> /\ derived' = <<>>
  /\ discarded' = {}
  /\ Notify

\* createBinding(props): the first run of the memo, prev is undefined
CreateBinding(max, f, p, g, id) ==
  /\ pc = "idle" /\ ~Busy
  /\ frags[f].kind = "none"
  /\ Len(bindings) < max
  /\ Register(p, g, id)
  /\ frags' = [frags EXCEPT ![f] =
       [kind |-> "binding", state |-> "live", slot |-> 0,
        handle |-> Len(bindings) + 1]]
  /\ lastCall' = Call("makeBinding", g, id, p, "")
  /\ UNCHANGED <<queueVars, flushVars>>
  /\ UNCHANGED <<notified, status>>
  /\ UNCHANGED <<loadVars, wgslVars>>
  /\ visited' = <<>> /\ builds' = <<>> /\ derived' = <<>>
  /\ Notify

\* the holder of a binding fragment calls binding()(resource)
SetterCalled(f, resource) ==
  /\ pc = "idle" /\ ~Busy
  /\ frags[f].state = "live"
  /\ frags[f].kind = "binding"
  /\ Store(frags[f].handle, resource)
  /\ lastCall' = Call("setResource", frags[f].handle, 0, resource, "")
  /\ UNCHANGED <<nextWorkId, func, persistentWork, oneTimeWork>>
  /\ UNCHANGED <<groupOrder, groupBindings>>
  /\ UNCHANGED <<flushVars, status, frags>>
  /\ UNCHANGED <<loadVars, wgslVars>>
  /\ visited' = <<>> /\ builds' = <<>> /\ derived' = <<>>
  /\ Notify

\* the memo running again without its `prev?.(null)`
MemoClears_NoClear(max, f) ==
  /\ pc = "idle" /\ ~Busy
  /\ frags[f].state = "live"
  /\ frags[f].kind = "binding"
  /\ Len(bindings) < max
  /\ UNCHANGED <<bindings, compiled, hasWork, notified, fresh>>
  /\ discarded' = {}
  /\ frags' = [frags EXCEPT ![f].state = "rerun"]
  /\ lastCall' = Call("setResource", frags[f].handle, 0, Null, "")
  /\ UNCHANGED <<nextWorkId, func, persistentWork, oneTimeWork>>
  /\ UNCHANGED <<groupOrder, groupBindings>>
  /\ UNCHANGED <<flushVars, status>>
  /\ UNCHANGED <<loadVars, wgslVars>>
  /\ visited' = <<>> /\ builds' = <<>> /\ derived' = <<>>
  /\ Notify

\* props changed: the memo runs again and first calls prev(null)
MemoClears(max, f) ==
  /\ pc = "idle" /\ ~Busy
  /\ frags[f].state = "live"
  /\ frags[f].kind = "binding"
  /\ Len(bindings) < max
  /\ Store(frags[f].handle, Null)
  /\ frags' = [frags EXCEPT ![f].state = "rerun"]
  /\ lastCall' = Call("setResource", frags[f].handle, 0, Null, "")
  /\ UNCHANGED <<nextWorkId, func, persistentWork, oneTimeWork>>
  /\ UNCHANGED <<groupOrder, groupBindings>>
  /\ UNCHANGED <<flushVars, status>>
  /\ UNCHANGED <<loadVars, wgslVars>>
  /\ visited' = <<>> /\ builds' = <<>> /\ derived' = <<>>
  /\ Notify

\* ... and then returns makeBinding(props.pipeline, props.group, props.id)
MemoRegisters(f, p, g, id) ==
  /\ frags[f].state = "rerun"
  /\ Register(p, g, id)
  /\ frags' = [frags EXCEPT ![f].state = "live",
                            ![f].handle = Len(bindings) + 1]
  /\ lastCall' = Call("makeBinding", g, id, p, "")
  /\ UNCHANGED <<queueVars, flushVars>>
  /\ UNCHANGED <<notified, status>>
  /\ UNCHANGED <<loadVars, wgslVars>>
  /\ visited' = <<>> /\ builds' = <<>> /\ derived' = <<>>
  /\ Notify

\* the owner of a live fragment is disposed: the onCleanup callback of
\* createGPURender / createGPUWrite calls update(null); createBinding
\* registers no onCleanup, so nothing of a binding fragment runs
Dispose(f) ==
  /\ pc = "idle" /\ ~Busy
  /\ frags[f].state = "live"
  /\ frags' = [frags EXCEPT ![f].state = "disposed"]
  /\ IF frags[f].kind \in {"render", "write"}
       THEN /\ UpdateRemove(frags[f].slot)
            /\ lastCall' = Call("update", frags[f].slot, 0, Null, "false")
       ELSE /\ UNCHANGED <<func, persistentWork, oneTimeWork>>
            /\ UNCHANGED <<hasWork, notified, status>>
            /\ lastCall' = Call("dispose", f, 0, "", "")
  /\ UNCHANGED nextWorkId
  /\ UNCHANGED <<cacheVars, flushVars, fresh>>
  /\ UNCHANGED <<loadVars, wgslVars>>
  /\ visited' = <<>> /\ builds' = <<>> /\ derived' = <<>>
  /\ discarded' = {}
  /\ Notify

CreateGPURenderAny(max) ==
  \E f \in Frags, code \in Funcs : CreateGPURender(max, f, code)

CreateGPUWriteAny(max) ==
  \E f \in Frags, code \in Funcs : CreateGPUWrite(max, f, code)

EffectRunsAny == \E f \in Frags, code \in Funcs : EffectRuns(f, code)

CreateBindingAny(max) ==
  \E f \in Frags, p \in PipelineIds, g \in GroupIds, id \in BindingIds :
    CreateBinding(max, f, p, g, id)

SetterCalledAny ==
  \E f \in Frags, resource \in Resources \cup {Null} :
    SetterCalled(f, resource)

MemoClearsAny(max) == \E f \in Frags : MemoClears(max, f)

MemoRegistersAny ==
  \E f \in Frags, p \in PipelineIds, g \in GroupIds, id \in BindingIds :
    MemoRegisters(f, p, g, id)

DisposeAny == \E f \in Frags : Dispose(f)

\* the declarative fragments over the queue, between flushes
NextFragment ==
  \/ CreateGPURenderAny(MaxSlots)
  \/ CreateGPUWriteAny(MaxSlots)
  \/ EffectRunsAny
  \/ CreateBindingAny(FragBindings)
  \/ SetterCalledAny
  \/ MemoClearsAny(FragBindings)
  \/ MemoRegistersAny
  \/ DisposeAny

SpecFragment == Init /\ [][NextFragment]_vars

\* ------------------------------------------------------------------ Canvas
\* new GPUWorkQueue(gpu) in GPUWorkQueue.Provider: the manager whose
\* onHasWork the Provider sets and which the ref hands to the Canvas
Provider ==
  /\ nextWorkId' = 1
  /\ func' = [s \in Slots |-> Noop]
  /\ persistentWork' = <<>>
  /\ oneTimeWork' = <<>>
  /\ hasWork' = FALSE
  /\ pc' = "idle"
  /\ renders' = <<>>
  /\ ran' = <<>>
  /\ outcome' = "none"
  /\ encoders' = 0
  /\ submits' = <<>>
  /\ captured' = [s \in Slots |-> Noop]
  /\ notified' = 0
  /\ status' = [s \in Slots |-> "none"]
  /\ lastCall' = Call("new", 0, 0, "", "")
  /\ bindings' = <<>>
  /\ groupOrder' = [p \in PipelineIds |-> <<>>]
  /\ groupBindings' = [k \in GroupKeys |-> <<>>]
  /\ compiled' = [k \in GroupKeys |-> Undefined]
  /\ visited' = <<>>
  /\ builds' = <<>>
  /\ derived' = <<>>
  /\ fresh' = [k \in GroupKeys |-> {}]
  /\ discarded' = {}
  /\ UNCHANGED <<loadVars, frags, wgslVars>>

\* Canvas(props): the component is made, and with it its Provider
Canvas ==
  /\ mounted = "none"
  /\ pc = "idle"
  /\ mounted' = "mounted"
  /\ UNCHANGED <<renderTimer, pending, skipped>>
  /\ Provider

\* the GPUContainer of a mounted Canvas renders its children again: a new
\* Provider and manager under the same Canvas
Reprovide ==
  /\ mounted = "mounted"
  /\ pc = "idle"
  /\ lastCall.op # "new"
  /\ UNCHANGED canvasVars
  /\ Provider

\* render() that leaves renderTimer as it is
RenderFrame_KeepsTimer(t) ==
  /\ t \in pending
  /\ pending' = pending \ {t}
  /\ UNCHANGED renderTimer
  /\ UNCHANGED <<mounted, skipped>>
  /\ RunQueuedBody

\* the animation frame request t fires: render() sets renderTimer to
\* undefined and calls manager.runQueued()
RenderFrame(t) ==
  /\ t \in pending
  /\ pending' = pending \ {t}
  /\ renderTimer' = 0
  /\ UNCHANGED <<mounted, skipped>>
  /\ RunQueuedBody

\* the onCleanup of the Canvas
Cleanup ==
  /\ mounted = "mounted"
  /\ pc = "idle"
  /\ mounted' = "cleaned"
  /\ IF renderTimer # 0
       THEN pending' = pending \ {renderTimer}
       ELSE UNCHANGED pending
  /\ renderTimer' = 0
  /\ UNCHANGED skipped
  /\ lastCall' = Call("cleanup", 0, 0, "", "")
  /\ UNCHANGED <<queueVars, cacheVars, flushVars>>
  /\ UNCHANGED <<notified, status, visited, builds, derived, fresh, discarded>>
  /\ UNCHANGED <<loadVars, frags, wgslVars>>

RenderAny == \E t \in pending : RenderFrame(t)

\* the flush in progress goes on: the recorder that is running returns
\* or throws
FlushStep == RunRecorder \/ RecorderThrows \/ Submit

\* a Canvas, its frame driver and the work slots of its queue
NextCanvas ==
  \/ Canvas
  \/ Reprovide
  \/ ReserveSlot(JointSlots)
  \/ UpdateAny
  \/ RenderAny
  \/ RunRecorder
  \/ RecorderThrows
  \/ Submit
  \/ Cleanup

SpecCanvas == Init /\ [][NextCanvas]_vars

\* ... where every requested frame fires and every recorder returns or
\* throws
SpecCanvasLive ==
  /\ Init /\ [][NextCanvas]_vars
  /\ WF_vars(RenderAny)
  /\ WF_vars(FlushStep)

----------------------------------------------------------------------------
\* WGSL templates (wgsl/wgsl.ts, wgsl/bindings.ts)

\* The text of a bindings part is a sequence of pieces: an occurrence of
\* `var<uniform>` or a run of other text.  A template string is empty or
\* not.
Uniform == "var<uniform>"
Pieces == {Uniform, "text"}
Codes == UNION {[1..n -> Pieces] : n \in 0..MaxCode}
TemplateStrings == {"", "s"}

\* a part of a WGSLCode: a string or a WGSLSerializer (the encodeBindings
\* closure of bindings(code))
StringPart(s) == [kind |-> "string", text |-> s, code |-> <<>>]
SerializerPart(c) == [kind |-> "serializer", text |-> "", code |-> c]

\* pieces of serialized text
Str == [kind |-> "string", group |-> 0, binding |-> 0]
Text == [kind |-> "text", group |-> 0, binding |-> 0]
\* `@group(${group}) @binding(${binding}) var<uniform>`
Decl(group, binding) ==
  [kind |-> "uniform", group |-> group, binding |-> binding]

\* the parts wgsl builds: code[0], then for each argument its parts (for
\* bindings(c), the one serializer) and the next string
WgslParts(code, args) ==
  [k \in 1..(2 * Len(args) + 1) |->
     IF k % 2 = 1 THEN StringPart(code[(k + 1) \div 2])
                  ELSE SerializerPart(args[k \div 2])]

\* code.replace(/var<uniform>/g, () => ...state.nextBinding++...), from
\* left to right: the text and the counter afterwards
RECURSIVE Replace(_, _, _)
Replace(code, group, nextBinding) ==
  IF code = <<>>
    THEN [result |-> <<>>, nextBinding |-> nextBinding]
    ELSE IF Head(code) = Uniform
      THEN LET r == Replace(Tail(code), group, nextBinding + 1) IN
             [result |-> <<Decl(group, nextBinding)>> \o r.result,
              nextBinding |-> r.nextBinding]
      ELSE LET r == Replace(Tail(code), group, nextBinding) IN
             [result |-> <<Text>> \o r.result,
              nextBinding |-> r.nextBinding]

encodeBindings(st, code) ==
  LET group == st.nextGroup
      r == Replace(code, group, 0)
  IN  [nextGroup |-> group + 1,
       nextBinding |-> r.nextBinding,
       code |-> Append(st.code, r.result)]

\* state.code.join("")
RECURSIVE Join(_)
Join(code) == IF code = <<>> THEN <<>> ELSE Head(code) \o Join(Tail(code))

WgslUntouched ==
  UNCHANGED <<queueVars, cacheVars, flushVars, obsVars, loadVars, frags,
              canvasVars>>

\* wgsl`...${bindings(c1)}...${bindings(c2)}...`
wgsl(code, args) ==
  /\ tpc = "none"
  /\ Len(code) = Len(args) + 1
  /\ parts' = WgslParts(code, args)
  /\ tpc' = "idle"
  /\ UNCHANGED <<state, part, strings>>
  /\ WgslUntouched

\* a toString that goes on from the counters the last call left
toString_KeepsCounters ==
  /\ tpc = "idle"
  /\ Len(strings) < MaxRuns
  /\ state' = [state EXCEPT !.code = <<>>]
  /\ part' = 0
  /\ tpc' = "loop"
  /\ UNCHANGED <<parts, strings>>
  /\ WgslUntouched

\* toString() is called: `let state = { nextGroup: 0, ... }`
toString ==
  /\ tpc = "idle"
  /\ Len(strings) < MaxRuns
  /\ state' = FreshState
  /\ part' = 0
  /\ tpc' = "loop"
  /\ UNCHANGED <<parts, strings>>
  /\ WgslUntouched

\* one iteration of `for (const part of this.parts)`
toStringPart ==
  /\ tpc = "loop"
  /\ part < Len(parts)
  /\ LET p == parts[part + 1] IN
       state' = IF p.kind = "string"
                  THEN IF p.text # ""
                         THEN [state EXCEPT !.code = Append(@, <<Str>>)]
                         ELSE state
                  ELSE encodeBindings(state, p.code)
  /\ part' = part + 1
  /\ UNCHANGED <<parts, tpc, strings>>
  /\ WgslUntouched

\* `return state.code.join("")`
toStringReturns ==
  /\ tpc = "loop"
  /\ part = Len(parts)
  /\ strings' = Append(strings, Join(state.code))
  /\ tpc' = "idle"
  /\ UNCHANGED <<parts, state, part>>
  /\ WgslUntouched

wgslAny ==
  \E n \in 0..MaxArgs :
    \E code \in [1..(n + 1) -> TemplateStrings], args \in [1..n -> Codes] :
      wgsl(code, args)

NextWgsl ==
  \/ wgslAny
  \/ toString
  \/ toStringPart
  \/ toStringReturns

SpecWgsl == Init /\ [][NextWgsl]_vars

\* ------------------------------------------------------------- properties
InPersistent(id) == id \in Range(persistentWork)
InOneTime(id) == id \in Range(oneTimeWork)
RanIds == [i \in 1..Len(ran) |-> ran[i].id]

\* C1: in every flush the recorders run in strictly ascending slot-id
\* order, whatever the order of the update calls and whichever slots are
\* persistent or one-time.
C1_AscendingOrder ==
  /\ \A i, j \in 1..Len(ran) : i < j => ran[i].id < ran[j].id
  /\ \A i \in 1..Len(ran) : ran[i].id = renders[i]
  /\ \A i, j \in 1..Len(renders) : i < j => renders[i] < renders[j]

\* a finished flush ran slot 1 before slot 2 although slot 2 was put into
\* the persistent Map first
C1_Witness ==
  /\ outcome = "submitted"
  /\ RanIds = <<1, 2>>
  /\ persistentWork = <<2, 1>>

\* C2: a recorder installed with update(f, false) is run by at most one
\* flush: no flush runs a slot whose one-time recorder a flush has run
\* already and which has not been updated since.
C2_OneTimeRunsOnce ==
  [][\A id \in Slots :
       (Len(ran') = Len(ran) + 1 /\ ran'[Len(ran')].id = id)
         => status[id] # "spent"]_vars

\* C3: a slot whose most recent update was update(f, true) holds f, stays
\* in the persistent Map, is in the work list of every flush that begins,
\* and a flush that reaches its submission has run its whole work list.
C3_PersistentEveryFlush ==
  [][/\ \A id \in Slots : status'[id] = "persistent" => InPersistent(id)'
     /\ (lastCall'.op = "update" /\ lastCall'.x # Null)
          => func'[lastCall'.i] = lastCall'.x
     /\ lastCall'.op = "runQueued"
          => \A id \in Slots :
               status[id] = "persistent" => id \in Range(renders')
     /\ lastCall'.op = "recorder"
          => ran'[Len(ran')].func = func[ran'[Len(ran')].id]
     /\ outcome' = "submitted" => RanIds' = renders'
    ]_vars

\* the second flush of the scenario: slot 1 persistent with A, slot 2
\* one-time with B and run by an earlier flush, this flush ran [A] only
C3_Witness ==
  /\ outcome = "submitted"
  /\ ran = <<[id |-> 1, func |-> "A"]>>
  /\ status[1] = "persistent"
  /\ status[2] = "spent" /\ func[2] = "B"

\* C4: once update(null) was the last call on a handle, an update(f) on
\* that handle changes neither Map, does not mark work and does not notify.
C4_RetiredStaysRetired ==
  [][\A id \in Slots :
       (status[id] = "retired" /\ lastCall'.op = "update" /\ lastCall'.i = id)
         => UNCHANGED <<persistentWork, oneTimeWork, hasWork, notified>>]_vars

\* C5: no slot is in both Maps, and a slot whose most recent update
\* installed a recorder (not yet drained, not retired) is in exactly the
\* Map its flag selected.
C5_ExactlyOneSet ==
  \A id \in Slots :
    /\ ~(InPersistent(id) /\ InOneTime(id))
    /\ status[id] = "persistent" => InPersistent(id) /\ ~InOneTime(id)
    /\ status[id] = "onetime" => InOneTime(id) /\ ~InPersistent(id)
    /\ status[id] \in {"none", "retired", "drained"}
         => ~InPersistent(id) /\ ~InOneTime(id)

\* slot 1 was switched to one-time while slot 2 is persistent
C5_Witness ==
  /\ lastCall = Call("update", 1, 0, "A", "false")
  /\ status[1] = "onetime"
  /\ status[2] = "persistent"
  /\ persistentWork = <<2>>
  /\ oneTimeWork = <<1>>

\* C6: onHasWork is called exactly in the steps that take hasWork from
\* false to true, so at most once between two flushes.
C6_NotifyOnEdgeOnly ==
  [][/\ (notified' = notified + 1) <=> (~hasWork /\ hasWork')
     /\ notified' <= 1
    ]_vars

\* an update and a changing setResource since the last flush, one
\* notification
C6_Witness ==
  /\ lastCall = Call("setResource", 1, 0, "R1", "")
  /\ Len(bindings) >= 1 /\ bindings[1].resource = "R1"
  /\ compiled[GroupOf(1)].state = "undefined"
  /\ status[1] = "onetime"
  /\ hasWork /\ notified = 1

\* C7: update(null) removes the slot from both Maps, keeps the other
\* slots in their order, and changes neither hasWork, the notification
\* count, the recorders, the id counter nor the binding registry.
C7_RemoveOnly ==
  [][\A id \in Slots :
       (lastCall'.op = "update" /\ lastCall'.x = Null /\ lastCall'.i = id)
         => /\ persistentWork' = SelectSeq(persistentWork, LAMBDA x : x # id)
            /\ oneTimeWork' = SelectSeq(oneTimeWork, LAMBDA x : x # id)
            /\ UNCHANGED <<hasWork, notified, func, nextWorkId, cacheVars>>
    ]_vars

\* slot 1 has been retired out of the persistent Map while hasWork was
\* false, slot 2 is still there
C7_Witness ==
  /\ lastCall = Call("update", 1, 0, Null, "false")
  /\ status[1] = "retired"
  /\ status[2] = "persistent"
  /\ persistentWork = <<2>>
  /\ ~hasWork

\* the pipeline objects for which group k holds a compiled object
CachedFor(k) == {o.pipeline : o \in compiled[k].objs}

\* C8: setResource(x) on a binding that already stores x changes nothing:
\* not the bindings, not the compiled caches, not hasWork, and it does
\* not notify.
C8_SameResourceNoOp ==
  [][\A h \in 1..Len(bindings) :
       (/\ lastCall'.op = "setResource" /\ lastCall'.i = h
        /\ bindings[h].resource = lastCall'.x)
         => UNCHANGED <<cacheVars, fresh, hasWork, notified>>]_vars

\* the last call was setResource("R1") on a binding that stores R1 and
\* whose group is still compiled, with hasWork still false
C8_Witness ==
  /\ lastCall = Call("setResource", 1, 0, "R1", "")
  /\ bindings[1].resource = "R1" /\ ~bindings[1].dropped
  /\ compiled[GroupOf(1)].state = "map"
  /\ ~hasWork /\ notified = 0

\* C9: a group holds compiled objects only for the pipeline objects it was
\* compiled for since its last change (none right after a change, so the
\* next resolve rebuilds), and every object forEachBindGroup visits is such
\* an object.
C9_ChangeInvalidatesAll ==
  /\ \A k \in GroupKeys : CachedFor(k) = fresh[k]
  /\ lastCall.op = "forEachBindGroup" =>
       \A i \in 1..Len(visited) :
         LET k == <<lastCall.x, visited[i].id>> IN
           /\ lastCall.y \in fresh[k]
           /\ visited[i].group \in compiled[k].objs
           /\ visited[i].group.entries = Entries(k)

\* setResource("R2") has just changed binding 1, whose group had compiled
\* objects for both pipeline objects: both are gone
C9_Witness ==
  /\ lastCall = Call("setResource", 1, 0, "R2", "")
  /\ bindings[1].resource = "R2"
  /\ discarded = {"X", "Y"}
  /\ compiled[GroupOf(1)] = Undefined

\* the group a makeBinding or setResource call is about
TargetOf(call) ==
  IF call.op = "makeBinding" THEN <<call.x, call.i>>
  ELSE <<bindings[call.i].pipeline, bindings[call.i].group>>

\* C10: makeBinding and setResource on a binding of one group leave the
\* bindings, resources and compiled cache of every other group as they
\* are, and a resolve visits a compiled object that is already there
\* without a createBindGroup call for its group.
C10_SiblingsUntouched ==
  [][/\ lastCall'.op \in {"makeBinding", "setResource"} =>
          \A k \in GroupKeys \ {TargetOf(lastCall')} :
            /\ compiled'[k] = compiled[k]
            /\ groupBindings'[k] = groupBindings[k]
            /\ \A h \in Range(groupBindings[k]) : bindings'[h] = bindings[h]
     /\ lastCall'.op = "forEachBindGroup" =>
          \A g \in GroupIds :
            LET k == <<lastCall'.x, g>> IN
              \A o \in Lookup(compiled[k], lastCall'.y) :
                /\ g \notin Range(builds')
                /\ \E i \in 1..Len(visited') :
                     visited'[i] = [group |-> o, id |-> g]
    ]_vars

\* group <<P, 0>> has just been changed while its sibling <<P, 1>> keeps
\* the object compiled for it
C10_Witness ==
  /\ lastCall.op = "setResource"
  /\ Len(bindings) = 2
  /\ GroupOf(1) = <<"P", 1>> /\ GroupOf(2) = <<"P", 0>>
  /\ lastCall.i = 2 /\ bindings[2].resource = "R1"
  /\ compiled[<<"P", 0>>].state = "undefined"
  /\ compiled[<<"P", 1>>].state = "map"

\* the group ids passed to map by the most recent forEachBindGroup
VisitedIds == {visited[i].id : i \in 1..Len(visited)}

\* C11: a group none of whose bindings holds a resource is never passed to
\* map and never built; a group marked empty (compiled = null) has no such
\* binding, is skipped by every resolve without collecting its entries,
\* and stays marked until a makeBinding or a changing setResource on it
\* resets it to undefined; a group of the pipeline that has a binding with
\* a resource is visited by a resolve that runs to its end.
C11_EmptyGroupSkipped ==
  [][/\ \A k \in GroupKeys : compiled[k].state = "null" => Entries(k) = <<>>
     /\ lastCall'.op \in {"forEachBindGroup", "createBindGroupThrows"} =>
          \A g \in GroupIds :
            LET k == <<lastCall'.x, g>> IN
              /\ Entries(k) = <<>> =>
                   /\ g \notin Range(builds')
                   /\ g \notin VisitedIds'
                   /\ ~(lastCall'.op = "createBindGroupThrows" /\ lastCall'.i = g)
              /\ compiled[k].state = "null" =>
                   /\ g \notin Range(derived')
                   /\ compiled'[k] = compiled[k]
              /\ (/\ lastCall'.op = "forEachBindGroup"
                  /\ g \in Range(groupOrder[lastCall'.x])) =>
                   IF Entries(k) = <<>> THEN compiled'[k] = Empty
                                        ELSE g \in VisitedIds'
     /\ \A k \in GroupKeys :
          (compiled[k].state = "null" /\ compiled'[k].state # "null") =>
             /\ lastCall'.op \in {"makeBinding", "setResource"}
             /\ compiled'[k] = Undefined
    ]_vars

\* the second resolve of pipeline P: group 0, whose only binding is empty,
\* was marked empty by the first and is skipped without collecting, while
\* group 1 is visited from the cache
C11_Witness ==
  /\ lastCall = Call("forEachBindGroup", 0, 0, "P", "X")
  /\ Len(bindings) = 2
  /\ GroupOf(1) = <<"P", 0>> /\ bindings[1].resource = Null
  /\ GroupOf(2) = <<"P", 1>> /\ bindings[2].resource = "R1"
  /\ compiled[<<"P", 0>>] = Empty
  /\ derived = <<>> /\ builds = <<>>
  /\ VisitedIds = {1}

\* binding h2 was registered after binding h at the same identity
Supersedes(bs, h2, h) ==
  /\ h < h2
  /\ bs[h2].pipeline = bs[h].pipeline
  /\ bs[h2].group = bs[h].group
  /\ bs[h2].id = bs[h].id

\* C12: a binding is dropped exactly when a later makeBinding registered
\* the same identity, and the setter of a dropped binding, with any value,
\* changes no binding (so not the resource of the superseding one), no
\* compiled cache, not hasWork, and does not notify.
C12_StaleSetterNoOp ==
  [][/\ \A h \in 1..Len(bindings') :
          bindings'[h].dropped <=>
            \E h2 \in 1..Len(bindings') : Supersedes(bindings', h2, h)
     /\ \A h \in 1..Len(bindings) :
          (/\ lastCall'.op = "setResource" /\ lastCall'.i = h
           /\ bindings[h].dropped)
            => UNCHANGED <<cacheVars, fresh, hasWork, notified>>
    ]_vars

\* the old setter has just been called with R2 after binding 2 superseded
\* binding 1, stored R1 and was compiled: binding 2 still stores R1, the
\* group is still compiled and hasWork is still false
C12_Witness ==
  /\ lastCall = Call("setResource", 1, 0, "R2", "")
  /\ Len(bindings) = 2
  /\ Supersedes(bindings, 2, 1)
  /\ bindings[1].dropped /\ bindings[1].resource = Null
  /\ bindings[2].resource = "R1" /\ ~bindings[2].dropped
  /\ compiled[GroupOf(2)].state = "map"
  /\ ~hasWork /\ notified = 0

\* C13: a flush that has begun recording has created exactly one command
\* encoder and submitted nothing yet; a flush that ended by submitting has
\* created exactly one encoder, has called every recorder of its work
\* list, and has made exactly one submission, of exactly one command
\* buffer; and nothing is submitted in any other way.
C13_OneEncoderOneSubmit ==
  /\ pc = "recording" => encoders = 1 /\ submits = <<>> /\ renders # <<>>
  /\ outcome = "submitted" =>
       /\ pc = "idle"
       /\ renders # <<>>
       /\ RanIds = renders
       /\ encoders = 1
       /\ submits = <<1>>
  /\ submits # <<>> => outcome = "submitted"

\* a flush of two slots has submitted after both recorders returned
C13_Witness ==
  /\ lastCall.op = "submit"
  /\ outcome = "submitted"
  /\ ran = <<[id |-> 1, func |-> "A"], [id |-> 2, func |-> "B"]>>
  /\ encoders = 1 /\ submits = <<1>>

\* C14: a runQueued that begins with both Maps empty, whether or not
\* hasWork is set, ends at once with no command encoder created and
\* nothing submitted, and no recorder call or submission follows it before
\* the next runQueued.
C14_EmptyFlushNoDevice ==
  [][/\ (/\ lastCall'.op = "runQueued"
         /\ persistentWork = <<>> /\ oneTimeWork = <<>>)
          => /\ outcome' = "empty" /\ pc' = "idle"
             /\ renders' = <<>> /\ ran' = <<>>
             /\ encoders' = 0 /\ submits' = <<>>
             /\ ~hasWork'
     /\ outcome = "empty" =>
          /\ encoders = 0 /\ submits = <<>>
          /\ lastCall'.op \notin {"recorder", "throw", "submit"}
    ]_vars

\* runQueued was called with hasWork set, after the only slot had been
\* retired and a binding had been given a resource: nothing was created
\* or submitted
C14_Witness ==
  /\ lastCall = Call("runQueued", 0, 0, "true", "")
  /\ outcome = "empty"
  /\ status[1] = "retired"
  /\ Len(bindings) = 1 /\ bindings[1].resource = "R1"
  /\ encoders = 0 /\ submits = <<>>
  /\ ~hasWork

\* C15: a recorder that throws ends the flush as failed: the scheduler's
\* own state is as the recorder left it, no recorder of that flush is
\* called afterwards, nothing is submitted, then or later, for that
\* flush, and only a new runQueued call starts recorders again.
C15_FailureAborts ==
  [][/\ lastCall'.op = "throw" =>
          /\ outcome' = "failed" /\ pc' = "idle"
          /\ ran' = ran /\ submits' = <<>>
          /\ UNCHANGED <<queueVars, notified>>
     /\ outcome = "failed" =>
          /\ pc = "idle" /\ submits = <<>>
          /\ lastCall'.op \notin {"recorder", "throw", "submit"}
          /\ IF outcome' = "failed"
               THEN UNCHANGED <<renders, ran, encoders, submits>>
               ELSE lastCall'.op = "runQueued"
    ]_vars

\* slot 1's recorder threw in a flush of slots 1 and 2: slot 2's recorder
\* was not called and nothing was submitted
C15_Witness ==
  /\ lastCall = Call("throw", 1, 0, "", "")
  /\ outcome = "failed"
  /\ renders = <<1, 2>>
  /\ RanIds = <<1>>
  /\ encoders = 1 /\ submits = <<>>

\* C16: no step of a flush (capture, recorder call, failure, submission)
\* changes the persistent Map by itself, and every flush captures all of
\* it, so the flush after a failed one runs the persistent work again;
\* the capture empties the one-time Map, and a one-time slot that a failed
\* flush captured but did not call is in neither Map and is called by no
\* flush until an update on its handle.
C16_FailedFlushKeepsPersistent ==
  [][/\ lastCall'.op \in {"runQueued", "recorder", "throw", "submit"} =>
          UNCHANGED <<persistentWork, func, nextWorkId>>
     /\ lastCall'.op = "runQueued" =>
          /\ oneTimeWork' = <<>>
          /\ \A id \in Range(persistentWork) : id \in Range(renders')
     /\ lastCall'.op = "throw" =>
          /\ UNCHANGED oneTimeWork
          /\ \A i \in (Len(ran) + 1)..Len(renders) :
               status[renders[i]] = "drained" => status'[renders[i]] = "lost"
     /\ \A id \in Slots :
          status[id] = "lost" =>
            /\ ~InOneTime(id) /\ ~InPersistent(id)
            /\ ~(lastCall'.op = "recorder" /\ lastCall'.i = id)
            /\ status'[id] # "lost" =>
                 lastCall'.op = "update" /\ lastCall'.i = id
    ]_vars

\* slot 1 is persistent, slot 2 was one-time; a flush failed in slot 1's
\* recorder; the next flush has run slot 1 again and not slot 2
C16_Witness ==
  /\ lastCall.op = "submit"
  /\ outcome = "submitted"
  /\ status[1] = "persistent" /\ persistentWork = <<1>>
  /\ status[2] = "lost"
  /\ ran = <<[id |-> 1, func |-> "A"]>>

\* C17: a resolve that fails in the device's build for group G and a
\* pipeline object leaves G's compiled field as it was: not marked empty,
\* no object stored for that pipeline object, the objects of other
\* pipeline objects kept; G is not passed to map, no binding and no
\* scheduler state changes, and the next resolve with the same arguments
\* calls createBindGroup for G again.
C17_FailedBuildStoresNothing ==
  [][lastCall'.op = "createBindGroupThrows" =>
       LET p == lastCall'.x
           g == lastCall'.i
           k == <<p, g>>
           again == VisitGroups(p, lastCall'.y, groupOrder[p],
                      [compiled |-> compiled', builds |-> <<>>,
                       derived |-> <<>>, visited |-> <<>>])
       IN
         /\ compiled'[k] = compiled[k]
         /\ compiled'[k].state # "null"
         /\ Lookup(compiled'[k], lastCall'.y) = {}
         /\ fresh'[k] = fresh[k]
         /\ g \notin VisitedIds'
         /\ g \notin Range(builds')
         /\ UNCHANGED <<bindings, groupOrder, groupBindings>>
         /\ UNCHANGED <<queueVars, flushVars, notified>>
         /\ g \in Range(again.builds)
    ]_vars

\* the build of group <<P, 0>> for pipeline object Y has just failed; the
\* object built earlier for X is still cached and none is stored for Y
C17_Witness ==
  /\ lastCall = Call("createBindGroupThrows", 0, 0, "P", "Y")
  /\ CachedFor(<<"P", 0>>) = {"X"}
  /\ compiled[<<"P", 0>>].state = "map"
  /\ VisitedIds = {}

\* C18: a group holds at most one compiled object per pipeline object; a
\* resolve discards none, builds for a group only when the group has no
\* object for the resolve's pipeline object (and then adds exactly one,
\* with one createBindGroup call), and otherwise passes the cached object
\* to map without collecting entries or calling createBindGroup; objects
\* leave a group's cache only through a makeBinding or setResource on that
\* group.
C18_CachedPerPipelineObject ==
  [][/\ \A k \in GroupKeys : \A o1, o2 \in compiled[k].objs :
          o1.pipeline = o2.pipeline => o1 = o2
     /\ lastCall'.op \in {"forEachBindGroup", "createBindGroupThrows"} =>
          \A g \in GroupIds :
            LET k == <<lastCall'.x, g>>
                had == Lookup(compiled[k], lastCall'.y)
            IN
              /\ compiled[k].objs \subseteq compiled'[k].objs
              /\ Cardinality({i \in 1..Len(builds') : builds'[i] = g}) <= 1
              /\ \A o \in had :
                   /\ g \notin Range(builds')
                   /\ g \notin Range(derived')
                   /\ compiled'[k] = compiled[k]
                   /\ lastCall'.op = "forEachBindGroup" =>
                        \E i \in 1..Len(visited') :
                          visited'[i] = [group |-> o, id |-> g]
              /\ g \in Range(builds') =>
                   /\ had = {}
                   /\ \E o \in Lookup(compiled'[k], lastCall'.y) :
                        compiled'[k].objs = compiled[k].objs \cup {o}
     /\ \A k \in GroupKeys :
          ~(compiled[k].objs \subseteq compiled'[k].objs) =>
             /\ lastCall'.op \in {"makeBinding", "setResource"}
             /\ TargetOf(lastCall') = k
    ]_vars

\* group <<P, 0>> was compiled for X and for Y; a further resolve with X
\* built nothing and visited the group from the cache, which still holds
\* both objects
C18_Witness ==
  /\ lastCall = Call("forEachBindGroup", 0, 0, "P", "X")
  /\ CachedFor(<<"P", 0>>) = {"X", "Y"}
  /\ builds = <<>> /\ derived = <<>>
  /\ VisitedIds = {0}

\* the entries that the bindings of group k which are not dropped and hold
\* a resource stand for
LiveEntries(k) ==
  {[binding |-> bindings[h].id, resource |-> bindings[h].resource] :
     h \in {h \in 1..Len(bindings) :
              /\ GroupOf(h) = k
              /\ ~bindings[h].dropped
              /\ bindings[h].resource # Null}}

\* C19: every object a resolve passes to map for group G was built for the
\* resolve's pipeline object and G's index, and its entries are exactly
\* one (binding index, current resource) pair for each binding of G that
\* is not dropped and holds a resource: none for an empty binding, none
\* for a superseded one, none twice.
C19_EntriesAreLiveBindings ==
  lastCall.op \in {"forEachBindGroup", "createBindGroupThrows"} =>
    \A i \in 1..Len(visited) :
      LET o == visited[i].group
          k == <<lastCall.x, visited[i].id>>
      IN
        /\ o.pipeline = lastCall.y
        /\ o.index = visited[i].id
        /\ o.entries # <<>>
        /\ Range(o.entries) = LiveEntries(k)
        /\ Len(o.entries) = Cardinality(LiveEntries(k))

\* binding 1 stored R1 and was then superseded by binding 2, which stores
\* R2: the object visited for the group has the one entry (0, R2)
C19_Witness ==
  /\ lastCall = Call("forEachBindGroup", 0, 0, "P", "X")
  /\ Len(bindings) = 2
  /\ Supersedes(bindings, 2, 1)
  /\ GroupOf(2) = <<"P", 0>> /\ bindings[2].id = 0
  /\ bindings[1].dropped /\ bindings[1].resource = "R1"
  /\ bindings[2].resource = "R2"
  /\ visited = <<[group |-> [pipeline |-> "X", index |-> 0,
                             entries |-> <<[binding |-> 0, resource |-> "R2"]>>],
                  id |-> 0]>>

\* C20: makeBinding(P, G, b) leaves G with no compiled object and builds
\* nothing itself; it stores a new binding with no resource under b; the
\* binding stored under b before, if any, is marked dropped, keeps its
\* resource to itself and is no longer among G's bindings, so G's entries
\* have none for b; every other binding is as it was.
C20_RegisterReplaces ==
  [][lastCall'.op = "makeBinding" =>
       LET k == <<lastCall'.x, lastCall'.i>>
           id == lastCall'.j
           h == Len(bindings')
       IN
         /\ h = Len(bindings) + 1
         /\ compiled'[k] = Undefined
         /\ builds' = <<>> /\ visited' = <<>>
         /\ bindings'[h] = [pipeline |-> k[1], group |-> k[2], id |-> id,
                            dropped |-> FALSE, resource |-> Null]
         /\ h \in Range(groupBindings'[k])
         /\ \A old \in 1..Len(bindings) :
              IF GroupOf(old) = k /\ bindings[old].id = id
                THEN /\ bindings'[old].dropped
                     /\ bindings'[old].resource = bindings[old].resource
                     /\ old \notin Range(groupBindings'[k])
                ELSE /\ bindings'[old] = bindings[old]
                     /\ old \in Range(groupBindings[k])
                          <=> old \in Range(groupBindings'[k])
         /\ \A j \in GroupKeys : j = k =>
              \A i \in 1..Len(Entries(j)') : Entries(j)'[i].binding # id
    ]_vars

\* binding 1 stored R1 and its group was compiled for X; makeBinding at
\* the same identity has just dropped it and the compiled object
C20_Witness ==
  /\ lastCall = Call("makeBinding", 0, 0, "P", "")
  /\ Len(bindings) = 2
  /\ Supersedes(bindings, 2, 1)
  /\ bindings[1].dropped /\ bindings[1].resource = "R1"
  /\ bindings[2].resource = Null /\ ~bindings[2].dropped
  /\ groupBindings[<<"P", 0>>] = <<2>>
  /\ discarded = {"X"}
  /\ compiled[<<"P", 0>>] = Undefined

\* C21: reserveSlot hands out the current value of the counter and raises
\* the counter by one; no other call, and no step of a flush, failed or
\* not, changes the counter; so the ids handed out so far are
\* 1..nextWorkId-1, each once and in increasing order.
C21_IdsStrictlyIncrease ==
  [][/\ nextWorkId' >= nextWorkId
     /\ IF lastCall'.op = "reserveSlot"
          THEN /\ lastCall'.i = nextWorkId
               /\ nextWorkId' = nextWorkId + 1
               /\ \A id \in Slots : status[id] # "none" => id < lastCall'.i
          ELSE nextWorkId' = nextWorkId
     /\ \A id \in Slots : status'[id] # "none" => id < nextWorkId'
    ]_vars

\* the second reservation, made after slot 1 was updated and retired and
\* a flush failed, received id 2
C21_Witness ==
  /\ lastCall = Call("reserveSlot", 2, 0, "", "")
  /\ nextWorkId = 3
  /\ status[1] = "retired"
  /\ outcome = "failed"

\* C22: an update(null) made while a flush is recording leaves the
\* captured work list, the calls made so far and the slot's recorder as
\* they are; the flush goes on calling the captured slots in order, the
\* retired one included, with the recorder stored in the slot; and a
\* retired slot is in neither Map, so no flush that begins later holds it.
C22_RetireDuringFlush ==
  [][/\ (pc = "recording" /\ lastCall'.op = "update" /\ lastCall'.x = Null) =>
          /\ UNCHANGED <<pc, renders, ran, func, encoders, submits>>
          /\ status'[lastCall'.i] = "retired"
     /\ lastCall'.op = "recorder" =>
          /\ lastCall'.i = renders[Len(ran) + 1]
          /\ ran' = Append(ran, [id |-> lastCall'.i, func |-> func[lastCall'.i]])
          /\ UNCHANGED renders
     /\ lastCall'.op = "submit" => RanIds = renders
     /\ \A id \in Slots :
          status[id] = "retired" =>
            /\ ~InPersistent(id) /\ ~InOneTime(id)
            /\ lastCall'.op = "runQueued" => id \notin Range(renders')
    ]_vars

\* slot 2 was retired by slot 1's recorder after the capture, and its
\* recorder has just been called all the same, in second place
C22_Witness ==
  /\ lastCall = Call("recorder", 2, 0, "B", "")
  /\ status[2] = "retired"
  /\ renders = <<1, 2>>
  /\ RanIds = <<1, 2>>
  /\ ~InPersistent(2) /\ ~InOneTime(2)

\* C24: a resolve for pipeline id P passes to map only groups registered
\* under P, each at most once, each with its own index and an object of
\* its own cache; it collects and builds only for groups of P and leaves
\* the caches of every other pipeline id as they are; when nothing is
\* registered under P it calls neither map nor the device and changes
\* nothing.
C24_OnlyOwnGroups ==
  [][lastCall'.op \in {"forEachBindGroup", "createBindGroupThrows"} =>
       LET p == lastCall'.x IN
         /\ \A i \in 1..Len(visited') :
              /\ visited'[i].id \in Range(groupOrder[p])
              /\ visited'[i].group.index = visited'[i].id
              /\ visited'[i].group \in compiled'[<<p, visited'[i].id>>].objs
              /\ \A j \in 1..Len(visited') :
                   visited'[j].id = visited'[i].id => j = i
         /\ Range(builds') \cup Range(derived') \subseteq Range(groupOrder[p])
         /\ \A k \in GroupKeys :
              k[1] # p => compiled'[k] = compiled[k] /\ fresh'[k] = fresh[k]
         /\ groupOrder[p] = <<>> =>
              /\ visited' = <<>> /\ builds' = <<>> /\ derived' = <<>>
              /\ lastCall'.op = "forEachBindGroup"
              /\ UNCHANGED <<cacheVars, fresh>>
    ]_vars

\* pipeline ids P and Q each have a group whose binding holds a resource;
\* a resolve for P has visited P's group 0 only and Q's group is still
\* uncompiled
C24_Witness ==
  /\ lastCall = Call("forEachBindGroup", 0, 0, "P", "X")
  /\ Len(bindings) = 2
  /\ GroupOf(1) = <<"P", 0>> /\ bindings[1].resource = "R1"
  /\ GroupOf(2) = <<"Q", 1>> /\ bindings[2].resource = "R2"
  /\ VisitedIds = {0} /\ Len(visited) = 1
  /\ compiled[<<"Q", 1>>] = Undefined

\* C27: runQueued leaves hasWork false when it begins; the recorder loop,
\* a failure and the submission do not touch it; an update that installs
\* a recorder and a setResource that changes a binding set it (notifying
\* if it was false), also from inside a recorder; no other call changes
\* it; so hasWork is true exactly when such a call was made since the
\* last flush began, whatever the persistent Map holds.
C27_FlushClearsFirst ==
  [][/\ lastCall'.op = "runQueued" => ~hasWork' /\ notified' = 0
     /\ lastCall'.op \in {"recorder", "throw", "submit"} =>
          UNCHANGED <<hasWork, notified>>
     /\ IF \/ lastCall'.op = "update" /\ lastCall'.x # Null
           \/ lastCall'.op = "setResource" /\ bindings' # bindings
          THEN /\ hasWork'
               /\ notified' = IF hasWork THEN notified ELSE notified + 1
          ELSE lastCall'.op # "runQueued" => UNCHANGED <<hasWork, notified>>
     /\ hasWork' <=> notified' = 1
    ]_vars

\* a flush of the persistent slot has submitted, and hasWork is set again
\* because the recorder changed a binding while it ran
C27_Witness ==
  /\ lastCall.op = "submit"
  /\ status[1] = "persistent" /\ persistentWork = <<1>>
  /\ Len(bindings) = 1 /\ bindings[1].resource = "R1"
  /\ hasWork /\ notified = 1

\* how often id occurs in the sequence s
Count(s, id) == Cardinality({i \in 1..Len(s) : s[i] = id})

\* C28: an update that installs a recorder stores it in the slot, leaves
\* the other slots' recorders alone and leaves the slot queued exactly
\* once (a Map the slot was already in is unchanged); only such an update
\* changes a recorder; a flush captures every queued slot exactly once, in
\* ascending id order, and calls each with the recorder the slot stores at
\* that moment, which is the one the last update installed.
C28_UpdatesCoalesce ==
  [][/\ (lastCall'.op = "update" /\ lastCall'.x # Null) =>
          LET id == lastCall'.i IN
            /\ func' = [func EXCEPT ![id] = lastCall'.x]
            /\ Count(persistentWork' \o oneTimeWork', id) = 1
            /\ InPersistent(id) /\ id \in Range(persistentWork') =>
                 persistentWork' = persistentWork
            /\ InOneTime(id) /\ id \in Range(oneTimeWork') =>
                 oneTimeWork' = oneTimeWork
     /\ func' # func => lastCall'.op = "update" /\ lastCall'.x # Null
     /\ lastCall'.op = "runQueued" =>
          /\ \A id \in Slots :
               Count(renders', id) =
                 IF InPersistent(id) \/ InOneTime(id) THEN 1 ELSE 0
          /\ \A i, j \in 1..Len(renders') : i < j => renders'[i] < renders'[j]
     /\ lastCall'.op = "recorder" =>
          /\ Len(ran') = Len(ran) + 1
          /\ ran'[Len(ran')].id = renders[Len(ran')]
          /\ ran'[Len(ran')].func = func[renders[Len(ran')]]
    ]_vars

\* slot 1 was queued with a recorder before slot 2 was, and has just been
\* updated again with B: it is still queued once, in its old place, now
\* with B
C28_Witness ==
  /\ pc = "idle"
  /\ lastCall = Call("update", 1, 0, "B", "false")
  /\ oneTimeWork = <<1, 2>> /\ persistentWork = <<>>
  /\ func[1] = "B"
  /\ WorkList = <<1, 2>>

C30_PendingOneTimeMarked ==
  (pc = "idle" /\ oneTimeWork # <<>>) => hasWork

\* a flush has cleared hasWork and the one-time Map, one of its recorders
\* queued one-time work, and the flush is over: the work is marked
C30_Witness ==
  /\ pc = "idle" /\ lastCall.op = "submit"
  /\ oneTimeWork # <<>> /\ hasWork

\* the context.configure calls made by load id
ConfiguredBy(c, id) == SelectSeq(c, LAMBDA e : e.load = id)

\* C26: a loadGPU call that finds no navigator.gpu returns
\* failure(E_GPU_NOSUPPORT), one whose requestAdapter gives null returns
\* failure(E_GPU_NOHARDWARE), one whose canvas gives no webgpu context
\* returns failure(E_GPU_NOWEBGPU), and none of these steps calls
\* context.configure; a call returns success only in the step that has
\* configured the context with the device requestDevice gave and the
\* preferred format, and the success carries both; a call that failed has
\* made no configure call, one that succeeded exactly one.
C26_LoadGPUResults ==
  [][/\ (lastCall'.op = "loadGPU" /\ lastCall'.j = 0) =>
          /\ loads'[lastCall'.i].result = failure(422)
          /\ configured' = configured
     /\ (lastCall'.op = "requestAdapter" /\ lastCall'.j = 0) =>
          /\ loads'[lastCall'.i].result = failure(404)
          /\ configured' = configured
     /\ (lastCall'.op = "requestDevice" /\ lastCall'.j = 0) =>
          /\ loads'[lastCall'.i].result = failure(423)
          /\ configured' = configured
     /\ (lastCall'.op = "requestDevice" /\ lastCall'.j = 1) =>
          /\ loads'[lastCall'.i].result = success(lastCall'.x, lastCall'.y)
          /\ configured' = Append(configured,
               [load |-> lastCall'.i, device |-> lastCall'.x,
                format |-> lastCall'.y])
     /\ \A id \in 1..Len(loads') :
          /\ loads'[id].result.kind = "failure" =>
               /\ ConfiguredBy(configured', id) = <<>>
               /\ loads'[id].result.code \in {422, 404, 423}
          /\ loads'[id].result.kind = "success" =>
               ConfiguredBy(configured', id) =
                 <<[load |-> id, device |-> loads'[id].result.device,
                    format |-> loads'[id].result.format]>>
          /\ loads'[id].result.kind = "undefined" =>
               ConfiguredBy(configured', id) = <<>>
    ]_vars

\* the first load found no webgpu context and the second, just ended,
\* configured the context with D2 and rgba8unorm and returned success
C26_Witness ==
  /\ lastCall = Call("requestDevice", 2, 1, "D2", "rgba8unorm")
  /\ loads[1].result = failure(E_GPU_NOWEBGPU)
  /\ loads[2].result = success("D2", "rgba8unorm")
  /\ configured = <<[load |-> 2, device |-> "D2", format |-> "rgba8unorm"]>>

\* C25: once GPUContainer is made, the fallback is shown while the signal
\* holds no result, which is until the current load has delivered; when
\* the current load has delivered a failure the view is the handler's
\* element for its code if props.failure is provided and a thrown
\* GPULoadError with that code otherwise; the children are rendered in
\* the provider exactly when the current load has delivered a success,
\* and the provider's value is that success's
C25_FailureHandling ==
  loadId >= 1 =>
    LET cur == loads[loadId] IN
      /\ cur.pc # "delivered" => getResult = NoResult
      /\ getResult = NoResult => view = View("fallback", NoResult)
      /\ (cur.pc = "delivered" /\ cur.result.kind = "failure") =>
           view = View(IF hasHandler THEN "handler" ELSE "thrown", cur.result)
      /\ view.kind = "children" <=>
           (cur.pc = "delivered" /\ cur.result.kind = "success")
      /\ view.kind = "children" => view = View("children", cur.result)

\* a handler is provided, the first load succeeded and was superseded, and
\* the second has delivered E_GPU_NOHARDWARE: the handler's element shows
C25_Witness ==
  /\ hasHandler /\ loadId = 2
  /\ loads[1].result.kind = "success"
  /\ loads[2].pc = "delivered"
  /\ view = View("handler", failure(E_GPU_NOHARDWARE))

\* the teardown of a work fragment makes one call, update(null) on the
\* slot the fragment reserved, and the slot is in neither Map after it
RetiresOnce ==
  \A f \in Frags :
    (/\ frags[f].state = "live" /\ frags'[f].state = "disposed"
     /\ frags[f].kind \in {"render", "write"}) =>
      /\ lastCall' = Call("update", frags[f].slot, 0, Null, "false")
      /\ frags[f].slot \notin Range(persistentWork' \o oneTimeWork')

\* the teardown of a binding fragment makes one call, the setter of the
\* binding the fragment registered with null, and that binding, unless
\* another registration has replaced it, holds no resource after it
ClearsOnce ==
  \A f \in Frags :
    (/\ frags[f].state = "live" /\ frags'[f].state = "disposed"
     /\ frags[f].kind = "binding") =>
      /\ lastCall' = Call("setResource", frags[f].handle, 0, Null, "")
      /\ \/ bindings'[frags[f].handle].dropped
         \/ bindings'[frags[f].handle].resource = Null

\* C23: when a fragment is torn down, the slot it reserved is retired
\* with update(null) exactly once (createGPURender, createGPUWrite) and
\* the binding it registered is cleared with the setter called with null
\* exactly once (createBinding)
C23_TeardownCallsOnce == [][RetiresOnce /\ ClearsOnce]_vars

\* the part of C23 about createGPURender and createGPUWrite
C23_WorkRetiredOnce == [][RetiresOnce]_vars

\* a render fragment has been torn down: its slot is retired
C23_WorkWitness ==
  /\ frags[1].kind = "render" /\ frags[1].state = "disposed"
  /\ lastCall = Call("update", frags[1].slot, 0, Null, "false")
  /\ status[frags[1].slot] = "retired"

\* a binding fragment has been torn down and the binding it registered
\* still holds its resource and is still an entry of its group
C23_BindingLeftWitness ==
  /\ frags[1].kind = "binding" /\ frags[1].state = "disposed"
  /\ ~bindings[1].dropped /\ bindings[1].resource = "R1"
  /\ Len(Entries(GroupOf(1))) = 1

\* C31: the recorder a slot runs in a flush is the one it held when the
\* flush built its work list, also when a recorder of the same flush has
\* called update(recorder') on the slot before its turn
C31_RecorderFixedAtCapture ==
  [][lastCall'.op = "recorder" =>
       ran'[Len(ran')].func = captured[ran'[Len(ran')].id]]_vars

\* C35: at most one animation frame request is outstanding, and it is the
\* one renderTimer holds; an onHasWork call that finds a request pending
\* requests nothing; a fired frame begins exactly one runQueued, and
\* under a Canvas nothing else begins one
C35_OneFrameOutstanding ==
  [][/\ Cardinality(pending') <= 1
     /\ pending' = IF renderTimer' = 0 THEN {} ELSE {renderTimer'}
     /\ (mounted # "none" /\ ~hasWork /\ hasWork' /\ renderTimer # 0) =>
          /\ UNCHANGED <<renderTimer, pending>>
          /\ skipped'
     /\ (mounted # "none" /\ mounted' # "cleaned" /\ pending' # pending
           /\ pending' = {}) =>
          /\ lastCall'.op = "runQueued"
          /\ pc = "idle" /\ renders' = WorkList /\ ran' = <<>>
     /\ (mounted # "none" /\ lastCall'.op = "runQueued") =>
          Cardinality(pending) = Cardinality(pending') + 1
    ]_vars

\* the queue of a new Provider has marked work while the request made for
\* the queue before it was still outstanding: nothing more was requested
C35_Witness ==
  /\ mounted = "mounted" /\ skipped
  /\ hasWork /\ lastCall.op = "update"
  /\ renderTimer = 1 /\ pending = {1}

\* C36: once the Canvas is cleaned up no animation frame request is
\* outstanding, so the frame driver does not call runQueued again
C36_NoFrameAfterCleanup ==
  mounted = "cleaned" => (pending = {} /\ renderTimer = 0)

\* C34: under a mounted Canvas, once hasWork is true a runQueued begins
\* (or the Canvas is cleaned up first)
C34_WorkLeadsToFlush ==
  (mounted = "mounted" /\ hasWork)
    ~> (mounted # "mounted" \/ lastCall.op = "runQueued")

\* a recorder marked work during a flush, the flush has failed, and a
\* frame is requested for the work
C34_Witness ==
  /\ mounted = "mounted"
  /\ outcome = "failed" /\ lastCall.op = "throw"
  /\ hasWork /\ renderTimer = 1 /\ pending = {1}

\* C32: a makeBinding or setter call that changes the set of (binding
\* index, resource) pairs a group compiles to leaves hasWork true
C32_EntryChangeMarksWork ==
  [][\A k \in GroupKeys :
       (/\ lastCall'.op \in {"makeBinding", "setResource"}
        /\ Range(Entries(k))' # Range(Entries(k))) => hasWork']_vars

\* the part of C32 about the setter
C32_SetterMarksWork ==
  [][\A k \in GroupKeys :
       (/\ lastCall'.op = "setResource"
        /\ Range(Entries(k))' # Range(Entries(k))) => hasWork']_vars

\* C33: the result signal holds either no result or the result of the
\* most recently started load, delivered; the .then callback of an
\* earlier load changes neither the signal nor the view; the start of a
\* load resets the signal to no result and the view to the fallback, and
\* they stay so until that load's .then callback runs
C33_LatestLoadWins ==
  [][/\ (lastCall'.op = "then" /\ lastCall'.i # loadId) =>
          UNCHANGED <<getResult, view, loadId>>
     /\ (lastCall'.op = "then" /\ lastCall'.i = loadId) =>
          getResult' = loads[loadId].result
     /\ lastCall'.op = "loadGPU" =>
          /\ loadId' = loadId + 1 /\ lastCall'.i = loadId'
          /\ getResult' = NoResult
          /\ view' = View("fallback", NoResult)
     /\ loadId' >= 1 =>
          /\ loads'[loadId'].pc # "delivered" =>
               (getResult' = NoResult /\ view' = View("fallback", NoResult))
          /\ getResult' # NoResult => getResult' = loads'[loadId'].result
    ]_vars

\* the second load delivered a failure, then the first, started earlier,
\* delivered its success: the signal still holds the second load's result
C33_Witness ==
  /\ loadId = 2
  /\ lastCall = Call("then", 1, 0, "", "")
  /\ loads[1].pc = "delivered" /\ loads[1].result.kind = "success"
  /\ loads[2].pc = "delivered"
  /\ getResult = failure(E_GPU_NOHARDWARE)

\* C38: when the memo of a createBinding fragment runs again, it first
\* calls the setter of the binding it registered with null: a binding
\* that no later registration has replaced then holds no resource, and
\* if it held one its group's compiled field is reset and hasWork is
\* true; a binding that has been replaced is left as it is, and so are
\* all other bindings and all compiled fields; only after that does the
\* memo register the new identity, as a new binding without a resource
C38_ClearBeforeRegister ==
  [][\A f \in Frags :
       LET h == frags[f].handle IN
       /\ (frags[f].state = "live" /\ frags'[f].state = "rerun") =>
            /\ Len(bindings') = Len(bindings)
            /\ \A h2 \in 1..Len(bindings) :
                 h2 # h => bindings'[h2] = bindings[h2]
            /\ IF bindings[h].dropped
                 THEN UNCHANGED <<bindings, compiled, hasWork>>
                 ELSE /\ bindings'[h] = [bindings[h] EXCEPT !.resource = Null]
                      /\ \A k \in GroupKeys :
                           compiled'[k] =
                             IF k = GroupOf(h) /\ bindings[h].resource # Null
                               THEN Undefined ELSE compiled[k]
                      /\ bindings[h].resource # Null => hasWork'
       /\ (frags[f].kind = "binding" /\ frags'[f].handle # h) =>
            /\ frags[f].state = "rerun" /\ frags'[f].state = "live"
            /\ bindings[h].dropped \/ bindings[h].resource = Null
            /\ frags'[f].handle = Len(bindings) + 1
            /\ Len(bindings') = Len(bindings) + 1
            /\ bindings'[frags'[f].handle] =
                 [pipeline |-> lastCall'.x, group |-> lastCall'.i,
                  id |-> lastCall'.j, dropped |-> FALSE, resource |-> Null]
    ]_vars

\* fragment 1 registered a binding, fragment 2 registered the same
\* identity and gave its binding R1, and the memo of fragment 1 has now
\* called its old setter with null: the binding of fragment 2 holds R1
C38_Witness ==
  /\ frags[1].state = "rerun" /\ frags[1].handle = 1
  /\ lastCall = Call("setResource", 1, 0, Null, "")
  /\ bindings[1].dropped
  /\ frags[2].state = "live" /\ frags[2].handle = 2
  /\ GroupOf(2) = GroupOf(1) /\ bindings[2].id = bindings[1].id
  /\ bindings[2].resource = "R1"

\* the memo of a fragment whose binding held R1 has run again: the old
\* binding is empty and a new one is registered
C38_ClearedWitness ==
  /\ frags[1].state = "live" /\ frags[1].handle = 2
  /\ lastCall.op = "makeBinding"
  /\ ~bindings[1].dropped /\ bindings[1].resource = Null
  /\ hasWork /\ notified = 1

\* C37: a recorder is called only inside a flush that has submitted
\* nothing yet, so what a one-time write recorder issues to the device
\* queue is issued before the submission; and the submission comes only
\* when every captured slot, one-time or every-frame and whatever its
\* id, has had its recorder called, in the captured order
C37_WritesBeforeSubmit ==
  [][/\ lastCall'.op = "recorder" =>
          /\ pc = "recording" /\ pc' = "recording"
          /\ submits = <<>> /\ submits' = <<>>
          /\ lastCall'.i = renders[Len(ran) + 1]
     /\ lastCall'.op = "submit" =>
          /\ submits = <<>> /\ submits' = <<1>>
          /\ Len(ran) = Len(renders)
          /\ \A i \in 1..Len(renders) : ran[i].id = renders[i]
          /\ Undone = {}
    ]_vars

\* a flush of every-frame slot 1 and one-time slot 2, reserved after it,
\* has submitted: the write recorder of slot 2 was called before
C37_Witness ==
  /\ lastCall.op = "submit" /\ submits = <<1>>
  /\ renders = <<1, 2>>
  /\ 1 \in Range(persistentWork) /\ status[2] = "spent"
  /\ Len(ran) = 2 /\ ran[2].id = 2

\* the same with the one-time slot reserved first
C37_WriteFirstWitness ==
  /\ lastCall.op = "submit" /\ submits = <<1>>
  /\ renders = <<1, 2>>
  /\ 2 \in Range(persistentWork) /\ status[1] = "spent"
  /\ Len(ran) = 2 /\ ran[1].id = 1

\* the number of serializer parts before part i of a template
GroupIndex(ps, i) ==
  Cardinality({j \in 1..(i - 1) : ps[j].kind = "serializer"})

\* the number of `var<uniform>` before piece t of a bindings text
BindingIndex(c, t) == Cardinality({u \in 1..(t - 1) : c[u] = Uniform})

\* the text of a template with its i-th bindings part given group i - 1
\* and the t-th `var<uniform>` of each part given binding t - 1
Numbered(ps) ==
  Join([i \in 1..Len(ps) |->
     IF ps[i].kind = "string"
       THEN IF ps[i].text = "" THEN <<>> ELSE <<Str>>
       ELSE [t \in 1..Len(ps[i].code) |->
               IF ps[i].code[t] = Uniform
                 THEN Decl(GroupIndex(ps, i), BindingIndex(ps[i].code, t))
                 ELSE Text]])

\* C39: every toString call on a template returns its text with the
\* bindings parts numbered as groups 0, 1, 2, ... in order of appearance
\* and, in each part, the `var<uniform>` occurrences numbered as bindings
\* 0, 1, 2, ... in order; so two calls return the same text
C39_SerializedNumbering ==
  /\ \A r \in 1..Len(strings) : strings[r] = Numbered(parts)
  /\ \A r, q \in 1..Len(strings) : strings[r] = strings[q]
  /\ tpc = "loop" =>
       /\ state.nextGroup = GroupIndex(parts, part + 1)
       /\ Len(state.code) <= part

\* a template of two bindings parts with two uniforms each has been
\* serialized twice
C39_Witness ==
  /\ tpc = "idle"
  /\ Len(strings) = 2
  /\ Len(parts) = 5
  /\ parts[2].code = <<Uniform, Uniform>>
  /\ parts[4].code = <<Uniform, Uniform>>
  /\ parts[3].text = "s"
  /\ SelectSeq(strings[2], LAMBDA x : x.kind = "uniform") =
       <<Decl(0, 0), Decl(0, 1), Decl(1, 0), Decl(1, 1)>>

====
